---- MODULE Spec2Model ----
(***************************************************************************)
(* The room synchronisation core of wethu: rooms.Manager (the registry of  *)
(* rooms) and rooms.Room (playback state, participant map, token index).   *)
(*                                                                         *)
(* Go pointers are heap indices: `rooms` is the heap of Room values,       *)
(* `parts` the heap of Participant values and `send` the heap of their     *)
(* mailbox channels, in allocation order; a Participant and its mailbox    *)
(* have the same index.  A Participant leaves the heap when the last       *)
(* reference to it, its entry in a participant map, is deleted.  A         *)
(* Go map is a function whose DOMAIN is its key set.  Strings that name    *)
(* things are tuples: generateID(prefix) is <<prefix, n>> and the empty    *)
(* string is <<>>.  A Go pointer to a string or a bool is a sequence       *)
(* of length 0 (nil) or 1.  Display names are carried by no operation      *)
(* other than being stored, and are left out.                              *)
(*                                                                         *)
(* Every method of Room runs under the room's mutex and every access to    *)
(* the registry under the manager's mutex, so one action is one critical   *)
(* section.  CreateRoom, JoinRoom and CleanupRoom release one lock before  *)
(* they take the next one: they are two actions each, joined by a record   *)
(* in `calls`, so that other calls interleave between the two.  One        *)
(* goroutine issues the CreateRoom calls, one the JoinRoom calls and one   *)
(* the CleanupRoom calls: of each, one call at a time is under way.        *)
(*                                                                         *)
(* A mailbox is a buffered channel: `mail` holds its queue and `send` how  *)
(* often it was closed.  Broadcast copies the participant list under the   *)
(* room's lock and sends after releasing it, one action per send.  A       *)
(* websocket connection is an index into `conns`; its record holds the     *)
(* handler's position, whether the transport is open, and the send loop    *)
(* the handler started with that loop's batch.  `handle` is each           *)
(* Participant's conn field, 0 for nil.  A panic ends the goroutine it     *)
(* occurs in, a handler or a worker of Broadcast, and with a worker the    *)
(* process: it sets `fault`, and no action of a specification with         *)
(* mailboxes is taken after it.  `enq` and `wrote` are histories that no   *)
(* operation reads.                                                        *)
(***************************************************************************)
EXTENDS Integers, Sequences, FiniteSets, TLC

VARIABLES
    rooms,     \* the heap of Room values
    parts,     \* the heap of Participant values
    send,      \* Participant.send: how often each mailbox has been closed
    registry,  \* Manager.rooms: room id -> Room
    calls,     \* the calls between two of their critical sections
    last,      \* the call that returned in the latest step
    mail,      \* Participant.send: the messages each mailbox holds
    handle,    \* Participant.conn: the connection each participant writes to
    conns,     \* the heap of websocket connections and their goroutines
    fault,     \* whether a goroutine has panicked
    sent,      \* how many envelopes the callers of a run have numbered
    enq,       \* history: the messages each mailbox has accepted, in order
    wrote      \* history: the writes of each participant's send loops, in order

vars == <<rooms, parts, send, registry, calls, last, mail, handle, conns, fault,
          sent, enq, wrote>>

\* The state of the connections and of the process.
netVars == <<conns, fault, sent>>
\* The fields of the Participant values that are written after NewParticipant,
\* and their histories.
boxVars == <<mail, handle, enq, wrote>>

(* ------------------------------ bounds --------------------------------- *)

\* Room values allocated in one run (calls of NewRoom).
MaxRooms == 2
\* Participant values allocated in one run (first attaches).
MaxParts == 2
\* How many of generateID's 900 numbers the model draws from.
IdRange == 2
\* Websocket connections upgraded in one run.
MaxConns == 2
\* Envelopes the callers of one run number.
MaxMsgs == 2

(* ----------------------------- constants ------------------------------- *)

\* generateID: rand.Intn(900) + 10.
IdBase == 10
\* NewParticipant: make(chan []byte, 8).
MailboxCap == 8
\* SendLoop: const batchSize = 5.
batchSize == 5

IdNumbers == IdBase .. (IdBase + IdRange - 1)

generateID(prefix, r) == <<prefix, r>>

RoomIds == {generateID("room", n) : n \in IdNumbers}
UserIds == {generateID("user", n) : n \in IdNumbers}
\* The tokens generateID can return.
TokenIds == {generateID("tok", n) : n \in IdNumbers}

EmptyString == <<>>

Urls == {"a", "b"}
\* Sample timestamps (0 is the zero time.Time) and playhead positions.
Times == {0, 1}
Positions == {0, 1}

ErrUnauthorizedControl == "only host can control playback"
NoError == "nil"
ErrRoomNotFound == "room not found"
ErrParticipantNotFound == "participant not found"
ErrInvalidToken == "invalid token"

\* protocol.ControlPayload; VideoURL and Playing are pointers.
Controls ==
    [Position : Positions,
     VideoURL : {<<>>} \cup {<<u>> : u \in Urls},
     Playing  : {<<>>} \cup {<<b>> : b \in BOOLEAN},
     IssuedAt : Times]

(* ------------------------------- Room ---------------------------------- *)

NewRoom(roomID, ownerID, videoURL, now) ==
    [Id           |-> roomID,
     OwnerID      |-> ownerID,
     VideoURL     |-> videoURL,
     IsPlaying    |-> FALSE,
     Position     |-> 0,
     UpdatedAt    |-> now,
     Participants |-> <<>>,
     TokenIndex   |-> <<>>]

\* delete(m, k) of a Go map
MapDelete(m, k) == [x \in (DOMAIN m) \ {k} |-> m[x]]

\* m[k] = v of a Go map
MapSet(m, k, v) == [x \in (DOMAIN m) \cup {k} |-> IF x = k THEN v ELSE m[x]]

\* AttachParticipant whose re-attach writes the host flag of the call as
\* well as the token.
AttachParticipantSetsHost(rs, ps, sd, r, userID, token, isHost) ==
    IF userID \in DOMAIN rs[r].Participants
    THEN [rooms |-> rs,
          parts |-> [ps EXCEPT ![rs[r].Participants[userID]].Token = token,
                               ![rs[r].Participants[userID]].IsHost = isHost],
          send  |-> sd]
    ELSE LET p == Len(sd) + 1
         IN [rooms |-> [rs EXCEPT
                 ![r].Participants = MapSet(@, userID, p),
                 ![r].TokenIndex   = MapSet(@, token, userID),
                 ![r].OwnerID      = IF isHost THEN userID ELSE @],
             parts |-> MapSet(ps, p, [ID     |-> userID,
                                      Token  |-> token,
                                      IsHost |-> isHost]),
             send  |-> Append(sd, 0)]

\* The heaps after rs[r].AttachParticipant(userID, name, token, isHost).
AttachParticipant(rs, ps, sd, r, userID, token, isHost) ==
    IF userID \in DOMAIN rs[r].Participants
    THEN [rooms |-> rs,
          parts |-> [ps EXCEPT ![rs[r].Participants[userID]].Token = token],
          send  |-> sd]
    ELSE LET p == Len(sd) + 1
         IN [rooms |-> [rs EXCEPT
                 ![r].Participants = MapSet(@, userID, p),
                 ![r].TokenIndex   = MapSet(@, token, userID),
                 ![r].OwnerID      = IF isHost THEN userID ELSE @],
             parts |-> MapSet(ps, p, [ID     |-> userID,
                                      Token  |-> token,
                                      IsHost |-> isHost]),
             send  |-> Append(sd, 0)]

\* StateSnapshot that leaves out the owner.
StateSnapshotOwnerless(room) ==
    [RoomID    |-> room.Id,
     VideoURL  |-> room.VideoURL,
     IsPlaying |-> room.IsPlaying,
     Position  |-> room.Position,
     OwnerID   |-> EmptyString,
     UpdatedAt |-> room.UpdatedAt]

StateSnapshot(room) ==
    [RoomID    |-> room.Id,
     VideoURL  |-> room.VideoURL,
     IsPlaying |-> room.IsPlaying,
     Position  |-> room.Position,
     OwnerID   |-> room.OwnerID,
     UpdatedAt |-> room.UpdatedAt]

\* protocol.RoomState{}
ZeroRoomState ==
    [RoomID    |-> EmptyString,
     VideoURL  |-> "",
     IsPlaying |-> FALSE,
     Position  |-> 0,
     OwnerID   |-> EmptyString,
     UpdatedAt |-> 0]

\* ApplyControl without the participant.IsHost test: any attached sender
\* passes.
ApplyControlAnyParticipant(rs, ps, r, senderID, control) ==
    LET room == rs[r]
        ok   == senderID \in DOMAIN room.Participants
    IN IF ~ok
       THEN [rooms |-> rs, state |-> ZeroRoomState, err |-> ErrUnauthorizedControl]
       ELSE LET after == [room EXCEPT
                    !.Position  = control.Position,
                    !.VideoURL  = IF control.VideoURL # <<>>
                                  THEN control.VideoURL[1] ELSE @,
                    !.IsPlaying = IF control.Playing # <<>>
                                  THEN control.Playing[1] ELSE @,
                    !.UpdatedAt = control.IssuedAt]
            IN [rooms |-> [rs EXCEPT ![r] = after],
                state |-> StateSnapshot(after),
                err   |-> NoError]

\* ApplyControl that takes its snapshot before it writes UpdatedAt.
ApplyControlEarlySnapshot(rs, ps, r, senderID, control) ==
    LET room == rs[r]
        ok   == senderID \in DOMAIN room.Participants
    IN IF ~ok \/ ~ps[room.Participants[senderID]].IsHost
       THEN [rooms |-> rs, state |-> ZeroRoomState, err |-> ErrUnauthorizedControl]
       ELSE LET before == [room EXCEPT
                    !.Position  = control.Position,
                    !.VideoURL  = IF control.VideoURL # <<>>
                                  THEN control.VideoURL[1] ELSE @,
                    !.IsPlaying = IF control.Playing # <<>>
                                  THEN control.Playing[1] ELSE @]
                after  == [before EXCEPT !.UpdatedAt = control.IssuedAt]
            IN [rooms |-> [rs EXCEPT ![r] = after],
                state |-> StateSnapshot(before),
                err   |-> NoError]

\* ApplyControl that assigns the optional fields without the nil tests: an
\* omitted field is written with its zero value.
ApplyControlZeroesOmitted(rs, ps, r, senderID, control) ==
    LET room == rs[r]
        ok   == senderID \in DOMAIN room.Participants
    IN IF ~ok \/ ~ps[room.Participants[senderID]].IsHost
       THEN [rooms |-> rs, state |-> ZeroRoomState, err |-> ErrUnauthorizedControl]
       ELSE LET after == [room EXCEPT
                    !.Position  = control.Position,
                    !.VideoURL  = IF control.VideoURL # <<>>
                                  THEN control.VideoURL[1] ELSE "",
                    !.IsPlaying = IF control.Playing # <<>>
                                  THEN control.Playing[1] ELSE FALSE,
                    !.UpdatedAt = control.IssuedAt]
            IN [rooms |-> [rs EXCEPT ![r] = after],
                state |-> StateSnapshot(after),
                err   |-> NoError]

\* ApplyControl that keeps the state of a control issued before the room's
\* last update: the newest timestamp wins.
ApplyControlNewerOnly(rs, ps, r, senderID, control) ==
    LET room == rs[r]
        ok   == senderID \in DOMAIN room.Participants
    IN IF ~ok \/ ~ps[room.Participants[senderID]].IsHost
       THEN [rooms |-> rs, state |-> ZeroRoomState, err |-> ErrUnauthorizedControl]
       ELSE IF control.IssuedAt < room.UpdatedAt
       THEN [rooms |-> rs, state |-> StateSnapshot(room), err |-> NoError]
       ELSE LET after == [room EXCEPT
                    !.Position  = control.Position,
                    !.VideoURL  = IF control.VideoURL # <<>>
                                  THEN control.VideoURL[1] ELSE @,
                    !.IsPlaying = IF control.Playing # <<>>
                                  THEN control.Playing[1] ELSE @,
                    !.UpdatedAt = control.IssuedAt]
            IN [rooms |-> [rs EXCEPT ![r] = after],
                state |-> StateSnapshot(after),
                err   |-> NoError]

\* rs[r].ApplyControl(senderID, control): the room heap afterwards, the
\* RoomState returned and the error returned.
ApplyControl(rs, ps, r, senderID, control) ==
    LET room == rs[r]
        ok   == senderID \in DOMAIN room.Participants
    IN IF ~ok \/ ~ps[room.Participants[senderID]].IsHost
       THEN [rooms |-> rs, state |-> ZeroRoomState, err |-> ErrUnauthorizedControl]
       ELSE LET after == [room EXCEPT
                    !.Position  = control.Position,
                    !.VideoURL  = IF control.VideoURL # <<>>
                                  THEN control.VideoURL[1] ELSE @,
                    !.IsPlaying = IF control.Playing # <<>>
                                  THEN control.Playing[1] ELSE @,
                    !.UpdatedAt = control.IssuedAt]
            IN [rooms |-> [rs EXCEPT ![r] = after],
                state |-> StateSnapshot(after),
                err   |-> NoError]

\* DetachParticipant without delete(r.Participants, participantID).
DetachParticipantKeepsEntry(rs, ps, sd, r, participantID) ==
    IF participantID \in DOMAIN rs[r].Participants
    THEN LET p == rs[r].Participants[participantID]
         IN [rooms |-> [rs EXCEPT
                 ![r].TokenIndex = IF ps[p].Token # EmptyString
                                   THEN MapDelete(@, ps[p].Token) ELSE @],
             parts |-> ps,
             send  |-> [sd EXCEPT ![p] = @ + 1]]
    ELSE [rooms |-> rs, parts |-> ps, send |-> sd]

\* The heaps after rs[r].DetachParticipant(participantID).  close(send) of a
\* channel that is already closed panics, so `send` counts the closes.
DetachParticipant(rs, ps, sd, r, participantID) ==
    IF participantID \in DOMAIN rs[r].Participants
    THEN LET p == rs[r].Participants[participantID]
         IN [rooms |-> [rs EXCEPT
                 ![r].TokenIndex   = IF ps[p].Token # EmptyString
                                     THEN MapDelete(@, ps[p].Token) ELSE @,
                 ![r].Participants = MapDelete(@, participantID)],
             parts |-> MapDelete(ps, p),
             send  |-> [sd EXCEPT ![p] = @ + 1]]
    ELSE [rooms |-> rs, parts |-> ps, send |-> sd]

ParticipantCount(room) == Cardinality(DOMAIN room.Participants)

\* room.FindByToken(ctx, token): the Participant found (0 is nil) and the
\* error.
FindByToken(room, token) ==
    IF token \notin DOMAIN room.TokenIndex
    THEN [participant |-> 0, err |-> ErrInvalidToken]
    ELSE LET userID == room.TokenIndex[token]
         IN IF userID \notin DOMAIN room.Participants
            THEN [participant |-> 0, err |-> ErrParticipantNotFound]
            ELSE [participant |-> room.Participants[userID], err |-> NoError]

(* ------------------------------ Manager -------------------------------- *)

\* `last` is the call that returned in the latest step and what it returned;
\* a step that returns from no call leaves NoReturn.
NoReturn == [op |-> "none"]

\* The Session that CreateRoom and JoinRoom return.
Session(roomID, userID, token, isHost, state) ==
    [RoomID |-> roomID, UserID |-> userID, Token |-> token,
     IsHost |-> isHost, State |-> state]

\* GetState without the test of ok.
GetStateUnchecked(reg, rs, roomID) ==
    IF roomID \notin DOMAIN reg
    THEN [state |-> ZeroRoomState, err |-> NoError]
    ELSE [state |-> StateSnapshot(rs[reg[roomID]]), err |-> NoError]

\* m.GetState(roomID) on registry `reg` and room heap `rs`.
GetState(reg, rs, roomID) ==
    IF roomID \notin DOMAIN reg
    THEN [state |-> ZeroRoomState, err |-> ErrRoomNotFound]
    ELSE [state |-> StateSnapshot(rs[reg[roomID]]), err |-> NoError]

\* m.LookupParticipant(roomID, token): the Room and the Participant found
\* (0 is nil) and the error.
LookupParticipant(reg, rs, roomID, token) ==
    IF roomID \notin DOMAIN reg
    THEN [room |-> 0, participant |-> 0, err |-> ErrRoomNotFound]
    ELSE LET f == FindByToken(rs[reg[roomID]], token)
         IN IF f.err # NoError
            THEN [room |-> 0, participant |-> 0, err |-> f.err]
            ELSE [room |-> reg[roomID], participant |-> f.participant,
                  err |-> NoError]

\* The numbers generateID may return next.  The code reads an id only to
\* compare it with another id of the same kind: a room id with the keys of
\* the registry, a user id or a token with those of one room.  Every number
\* that does not occur among them leads to the same behaviour up to
\* renaming, so the draw is any number that occurs (a collision) or the
\* least one that does not (a fresh id).
Draws(used) ==
    {n \in IdNumbers : n \in used \/ \A m \in IdNumbers \ used : n <= m}

UsedRoomNumbers == {rooms[r].Id[2] : r \in DOMAIN rooms}

\* The user ids that room r holds.
UsedUserNumbers(r) ==
    {u[2] : u \in DOMAIN rooms[r].Participants} \cup {rooms[r].OwnerID[2]}

\* The tokens that room r, its participants and the calls on it hold.
UsedTokenNumbers(r) ==
    {parts[rooms[r].Participants[u]].Token[2] : u \in DOMAIN rooms[r].Participants}
        \cup {t[2] : t \in DOMAIN rooms[r].TokenIndex}
        \cup {c.token[2] : c \in {d \in calls : d.op = "CreateRoom" /\ d.room = r}}

\* NewParticipant's part of an attach that left the mailbox heap as sd: a
\* Participant allocated in this step has an empty mailbox of capacity
\* MailboxCap and no connection.
NewParticipant(sd) ==
    IF Len(sd) > Len(send)
    THEN /\ mail' = Append(mail, <<>>)
         /\ handle' = Append(handle, 0)
         /\ enq' = Append(enq, <<>>)
         /\ wrote' = Append(wrote, <<>>)
    ELSE UNCHANGED boxVars

\* The calls of one operation that are between their critical sections.
Pending(op) == {c \in calls : c.op = op}

Init ==
    /\ rooms = <<>>
    /\ parts = <<>>
    /\ send = <<>>
    /\ registry = <<>>
    /\ calls = {}
    /\ last = NoReturn
    /\ mail = <<>>
    /\ handle = <<>>
    /\ conns = <<>>
    /\ fault = FALSE
    /\ sent = 0
    /\ enq = <<>>
    /\ wrote = <<>>

\* CreateRoom up to m.mu.Unlock(): the ids are generated, the room is built
\* and stored in the registry under its id.
CreateRoomRegister(videoURL, now) ==
    \E nr \in Draws(UsedRoomNumbers), nu \in Draws({}), nt \in Draws({}) :
        LET roomID == generateID("room", nr)
            userID == generateID("user", nu)
            token  == generateID("tok", nt)
            r      == Len(rooms) + 1
        IN /\ Len(rooms) < MaxRooms
           /\ Pending("CreateRoom") = {}
           /\ rooms' = Append(rooms, NewRoom(roomID, userID, videoURL, now))
           /\ registry' = MapSet(registry, roomID, r)
           /\ calls' = calls \cup {[op |-> "CreateRoom", room |-> r,
                                    userID |-> userID, token |-> token,
                                    videoURL |-> videoURL]}
           /\ last' = NoReturn
           /\ UNCHANGED <<parts, send, boxVars, netVars>>

\* CreateRoom from room.AttachParticipant to its return.
CreateRoomAttach ==
    \E c \in calls :
        /\ c.op = "CreateRoom"
        /\ LET a == AttachParticipant(rooms, parts, send, c.room, c.userID, c.token, TRUE)
           IN /\ Len(a.send) <= MaxParts
              /\ rooms' = a.rooms
              /\ parts' = a.parts
              /\ send' = a.send
              /\ NewParticipant(a.send)
              /\ last' = [op |-> "CreateRoom", room |-> c.room, err |-> NoError,
                          videoURL |-> c.videoURL,
                          session |-> Session(rooms[c.room].Id, c.userID, c.token,
                                              TRUE, StateSnapshot(a.rooms[c.room]))]
        /\ calls' = calls \ {c}
        /\ UNCHANGED <<registry, netVars>>

\* JoinRoom up to m.mu.RUnlock(): the registry is read; an unknown id ends
\* the call with ErrRoomNotFound.
JoinRoomLookup ==
    \E roomID \in RoomIds :
        /\ Pending("JoinRoom") = {}
        /\ IF roomID \in DOMAIN registry
           THEN /\ calls' = calls \cup {[op |-> "JoinRoom", room |-> registry[roomID],
                                         roomID |-> roomID]}
                /\ last' = NoReturn
           ELSE /\ calls' = calls
                /\ last' = [op |-> "JoinRoom", room |-> 0, err |-> ErrRoomNotFound]
        /\ UNCHANGED <<rooms, parts, send, registry, boxVars, netVars>>

\* JoinRoom from generateID to its return.
JoinRoomAttachOf(c) ==
      \E nu \in Draws(UsedUserNumbers(c.room)), nt \in Draws(UsedTokenNumbers(c.room)) :
        /\ LET userID == generateID("user", nu)
               token  == generateID("tok", nt)
               a == AttachParticipant(rooms, parts, send, c.room, userID, token, FALSE)
           IN /\ Len(a.send) <= MaxParts
              /\ rooms' = a.rooms
              /\ parts' = a.parts
              /\ send' = a.send
              /\ NewParticipant(a.send)
              /\ last' = [op |-> "JoinRoom", room |-> c.room, err |-> NoError,
                          session |-> Session(c.roomID, userID, token, FALSE,
                                              StateSnapshot(a.rooms[c.room]))]
        /\ calls' = calls \ {c}
        /\ UNCHANGED <<registry, netVars>>

JoinRoomAttach == \E c \in Pending("JoinRoom") : JoinRoomAttachOf(c)

\* A caller calls m.GetState(roomID).
GetStateCall ==
    \E roomID \in RoomIds :
        LET g == GetState(registry, rooms, roomID)
        IN /\ last' = [op |-> "GetState", roomID |-> roomID,
                       state |-> g.state, err |-> g.err]
           /\ UNCHANGED <<rooms, parts, send, registry, calls, boxVars, netVars>>

\* The rooms a caller of Room's methods or of CleanupRoom can hold.  The
\* connection handlers get the room from LookupParticipant, which finds a
\* participant of the room by its token, and NewRoom's result is in no other
\* hand before CreateRoom has attached the host: these are the rooms that
\* have a participant or whose CreateRoom has returned.
HeldRooms ==
    {r \in DOMAIN rooms :
        \/ ParticipantCount(rooms[r]) > 0
        \/ \A c \in Pending("CreateRoom") : c.room # r}

\* A caller that holds room r calls r.ApplyControl(senderID, control).  Of a
\* call that succeeded `last` keeps the control that was applied.
ApplyControlOf(control) ==
    \E r \in HeldRooms, senderID \in UserIds :
        LET a == ApplyControl(rooms, parts, r, senderID, control)
        IN /\ rooms' = a.rooms
           /\ last' = [op |-> "ApplyControl", room |-> r, sender |-> senderID,
                       applied |-> IF a.err = NoError THEN <<control>> ELSE <<>>,
                       state |-> a.state, err |-> a.err]
           /\ UNCHANGED <<parts, send, registry, calls, boxVars, netVars>>

ApplyControlCall == \E control \in Controls : ApplyControlOf(control)

\* A caller that holds room r calls r.AttachParticipant(userID, name, token,
\* isHost).
AttachParticipantCall ==
    \E r \in HeldRooms, isHost \in BOOLEAN :
      \E nu \in Draws(UsedUserNumbers(r)), nt \in Draws(UsedTokenNumbers(r)) :
        LET a == AttachParticipant(rooms, parts, send, r, generateID("user", nu),
                                   generateID("tok", nt), isHost)
        IN /\ Len(a.send) <= MaxParts
           /\ rooms' = a.rooms
           /\ parts' = a.parts
           /\ send' = a.send
           /\ NewParticipant(a.send)
           /\ last' = [op |-> "AttachParticipant", room |-> r, err |-> NoError]
           /\ UNCHANGED <<registry, calls, netVars>>

\* A caller that holds room r calls r.DetachParticipant(participantID).
DetachParticipantCall ==
    \E r \in HeldRooms, participantID \in UserIds :
        LET a == DetachParticipant(rooms, parts, send, r, participantID)
        IN /\ rooms' = a.rooms
           /\ parts' = a.parts
           /\ send' = a.send
           /\ last' = [op |-> "DetachParticipant", room |-> r,
                       found |-> participantID \in DOMAIN rooms[r].Participants]
           /\ UNCHANGED <<registry, calls, boxVars, netVars>>

\* CleanupRoom(room) up to room.ID(): a room that has participants ends the
\* call.
CleanupRoomCheck ==
    \E r \in HeldRooms :
        /\ Pending("CleanupRoom") = {}
        /\ IF ParticipantCount(rooms[r]) > 0
           THEN /\ calls' = calls
                /\ last' = [op |-> "CleanupRoom", room |-> r, deleted |-> FALSE]
           ELSE /\ calls' = calls \cup {[op |-> "CleanupRoom", room |-> r]}
                /\ last' = NoReturn
        /\ UNCHANGED <<rooms, parts, send, registry, boxVars, netVars>>

\* CleanupRoom that tests only that the id is registered.
CleanupDeletesById(reg, rs, r) ==
    LET roomID == rs[r].Id
        ok     == roomID \in DOMAIN reg
    IN ok

\* Whether CleanupRoom(room r), holding m.mu, deletes the registry entry.
CleanupDeletes(reg, rs, r) ==
    LET roomID == rs[r].Id
        ok     == roomID \in DOMAIN reg
    IN ok /\ reg[roomID] = r

\* The registry after CleanupRoom(room r) has held m.mu.
CleanupRegistry(reg, rs, r) ==
    IF CleanupDeletes(reg, rs, r) THEN MapDelete(reg, rs[r].Id) ELSE reg

\* CleanupRoom from m.mu.Lock() to its return.
CleanupRoomDelete ==
    \E c \in calls :
        /\ c.op = "CleanupRoom"
        /\ registry' = CleanupRegistry(registry, rooms, c.room)
        /\ last' = [op |-> "CleanupRoom", room |-> c.room,
                    deleted |-> CleanupDeletes(registry, rooms, c.room)]
        /\ calls' = calls \ {c}
        /\ UNCHANGED <<rooms, parts, send, boxVars, netVars>>

\* CreateRoom where no operation reads the video or the clock: one video and
\* one clock reading stand for all.
CreateRoomCall == CreateRoomRegister("a", 0)

(* ------------------------- one room, its members ------------------------ *)

\* The only CreateRoom of a run.
CreateOneRoom == rooms = <<>> /\ CreateRoomCall

\* One room under the manager: every operation that reads or writes its
\* participant map, its token index, its owner id or its registry entry.
NextRoom ==
    \/ CreateOneRoom
    \/ CreateRoomAttach
    \/ JoinRoomLookup
    \/ JoinRoomAttach
    \/ DetachParticipantCall
    \/ CleanupRoomCheck
    \/ CleanupRoomDelete

SpecRoom == Init /\ [][NextRoom]_vars

(* ----------------------- one room, the Room methods --------------------- *)

\* A seek: the control that writes the position and the timestamp.
Seek == [Position |-> 1, VideoURL |-> <<>>, Playing |-> <<>>, IssuedAt |-> 1]

SeekCall == ApplyControlOf(Seek)

\* One room whose callers call the exported methods of Room themselves, next
\* to the manager's CreateRoom and JoinRoom.
NextRoomAPI ==
    \/ CreateOneRoom
    \/ CreateRoomAttach
    \/ JoinRoomLookup
    \/ JoinRoomAttach
    \/ AttachParticipantCall
    \/ SeekCall
    \/ DetachParticipantCall

SpecRoomAPI == Init /\ [][NextRoomAPI]_vars

(* --------------------------- playback control --------------------------- *)

\* The only CreateRoom of a run, with any video at any time.
CreateFirstRoom ==
    /\ rooms = <<>>
    /\ \E videoURL \in Urls, now \in Times : CreateRoomRegister(videoURL, now)

\* A JoinRoom while no guest has been allocated: it attaches the first guest,
\* or its user id collides with the host's and it re-attaches the host.
JoinFirstGuest == Len(send) <= 1 /\ JoinRoomAttach

\* One room, its host and a guest, attached and detached, under every
\* ApplyControl.
NextControl ==
    \/ CreateFirstRoom
    \/ CreateRoomAttach
    \/ JoinRoomLookup
    \/ JoinFirstGuest
    \/ DetachParticipantCall
    \/ ApplyControlCall

SpecControl == Init /\ [][NextControl]_vars

(* ------------------------------ snapshots -------------------------------- *)

\* One room, its host and a guest, under every ApplyControl and every
\* GetState.
NextSnapshot ==
    \/ CreateFirstRoom
    \/ CreateRoomAttach
    \/ JoinRoomLookup
    \/ JoinFirstGuest
    \/ ApplyControlCall
    \/ GetStateCall

SpecSnapshot == Init /\ [][NextSnapshot]_vars

(* ------------------------ the registry and cleanup ---------------------- *)

\* A CreateRoom while every room created before is empty.
CreateAfterEmptied ==
    /\ \A r \in DOMAIN rooms : ParticipantCount(rooms[r]) = 0
    /\ CreateRoomCall

\* A JoinRoom that attaches to a room that is empty.
JoinEmptyRoom ==
    \E c \in Pending("JoinRoom") :
        /\ ParticipantCount(rooms[c.room]) = 0
        /\ JoinRoomAttachOf(c)

\* Rooms that are created, emptied and cleaned up one after the other, their
\* ids colliding, with at most one participant each.
NextManager ==
    \/ CreateAfterEmptied
    \/ CreateRoomAttach
    \/ JoinRoomLookup
    \/ JoinEmptyRoom
    \/ DetachParticipantCall
    \/ CleanupRoomCheck
    \/ CleanupRoomDelete

SpecManager == Init /\ [][NextManager]_vars

(* ------------------------------ mailboxes ------------------------------- *)

\* protocol.Envelope
Envelope(kind, data) == [Kind |-> kind, Data |-> data]

\* The envelope the handlers announce a room state with.
RoomStateEnvelope(state) == Envelope("ROOM_STATE", state)

\* select { case p.send <- data: default: } on the mailbox of participant p:
\* a send on a closed channel panics, a send on a channel with free space
\* appends, and the default case drops the data when the channel is full.
sendToParticipant(ml, sd, p, data) ==
    IF sd[p] > 0
    THEN [mail |-> ml, panic |-> TRUE]
    ELSE IF Len(ml[p]) < MailboxCap
         THEN [mail |-> [ml EXCEPT ![p] = Append(@, data)], panic |-> FALSE]
         ELSE [mail |-> ml, panic |-> FALSE]

\* Participant.Send: the envelope is serialised and sent with the same
\* select; p.send is set by AttachParticipant and never nil.
Send(ml, sd, p, envelope) == sendToParticipant(ml, sd, p, envelope)

\* The history of accepted messages after a send of data to the mailbox of
\* participant p that took the mailboxes from ml to ml2.
Accepted(eq, ml, ml2, p, data) ==
    IF ml2 # ml THEN [eq EXCEPT ![p] = Append(@, data)] ELSE eq

\* Broadcast up to r.mu.RUnlock(): the envelope is serialised and the
\* participants of room r are copied into a list.  A room without
\* participants ends the call.
BroadcastCopyOf(r, envelope) ==
    LET todo == {rooms[r].Participants[u] : u \in DOMAIN rooms[r].Participants}
    IN /\ IF todo = {}
          THEN /\ calls' = calls
               /\ last' = [op |-> "Broadcast", room |-> r, data |-> envelope]
          ELSE /\ calls' = calls \cup {[op |-> "Broadcast", room |-> r,
                                        data |-> envelope, todo |-> todo]}
               /\ last' = NoReturn
       /\ UNCHANGED <<rooms, parts, send, registry, boxVars, conns, fault>>

\* Broadcast's next r.sendToParticipant(p, data).  The list is served in the
\* order of Go's map iteration, or by the workers of the pool in the order
\* they take the participants: in any order.  A panic ends the call.
BroadcastSend ==
    \E c \in Pending("Broadcast") :
      \E p \in c.todo :
        LET e    == sendToParticipant(mail, send, p, c.data)
            rest == c.todo \ {p}
        IN /\ mail' = e.mail
           /\ enq' = Accepted(enq, mail, e.mail, p, c.data)
           /\ fault' = e.panic
           /\ IF e.panic
              THEN /\ calls' = calls
                   /\ last' = NoReturn
              ELSE IF rest = {}
                   THEN /\ calls' = calls \ {c}
                        /\ last' = [op |-> "Broadcast", room |-> c.room,
                                    data |-> c.data]
                   ELSE /\ calls' = (calls \ {c}) \cup {[c EXCEPT !.todo = rest]}
                        /\ last' = NoReturn
           /\ UNCHANGED <<rooms, parts, send, registry, handle, conns, sent, wrote>>

\* A caller that holds participant p calls p.Send(envelope).
SendOf(p, envelope) ==
    LET e == Send(mail, send, p, envelope)
    IN /\ mail' = e.mail
       /\ enq' = Accepted(enq, mail, e.mail, p, envelope)
       /\ fault' = e.panic
       /\ last' = IF e.panic
                  THEN NoReturn
                  ELSE [op |-> "Send", participant |-> p, data |-> envelope]
       /\ UNCHANGED <<rooms, parts, send, registry, calls, handle, conns, wrote>>

\* One goroutine broadcasts the state of a room it holds.
BroadcastState ==
    /\ Pending("Broadcast") = {}
    /\ \E r \in HeldRooms :
           BroadcastCopyOf(r, RoomStateEnvelope(StateSnapshot(rooms[r])))
    /\ UNCHANGED sent

\* A caller sends the state of a room to one of its participants.
SendState ==
    /\ \E r \in HeldRooms :
         \E u \in DOMAIN rooms[r].Participants :
           SendOf(rooms[r].Participants[u],
                  RoomStateEnvelope(StateSnapshot(rooms[r])))
    /\ UNCHANGED sent

\* An AttachParticipant while the host is the only participant allocated: it
\* attaches a second participant or re-attaches the host.
AttachSecond == Len(send) = 1 /\ AttachParticipantCall

\* One room, its host and a second participant, attached and detached, and
\* the state of the room broadcast and sent to mailboxes that nothing
\* empties.
NextMailbox ==
    \/ fault = FALSE /\ CreateOneRoom
    \/ fault = FALSE /\ CreateRoomAttach
    \/ fault = FALSE /\ AttachSecond
    \/ fault = FALSE /\ DetachParticipantCall
    \/ fault = FALSE /\ BroadcastState
    \/ fault = FALSE /\ BroadcastSend
    \/ fault = FALSE /\ SendState

SpecMailbox == Init /\ [][NextMailbox]_vars

(* ----------------------------- connections ------------------------------ *)

StatusUnauthorized == 401
StatusSwitchingProtocols == 101

ErrMissingToken == "missing token"

\* ServeHTTP that takes a token the room does not know for the owner's.
AuthorizeOwnerFallback(reg, rs, roomID, token) ==
    IF token = EmptyString
    THEN [status |-> StatusUnauthorized, body |-> ErrMissingToken,
          room |-> 0, participant |-> 0]
    ELSE LET l == LookupParticipant(reg, rs, roomID, token)
         IN IF l.err = NoError
            THEN [status |-> StatusSwitchingProtocols, body |-> NoError,
                  room |-> l.room, participant |-> l.participant]
            ELSE IF /\ l.err = ErrInvalidToken
                    /\ rs[reg[roomID]].OwnerID \in DOMAIN rs[reg[roomID]].Participants
                 THEN [status |-> StatusSwitchingProtocols, body |-> NoError,
                       room |-> reg[roomID],
                       participant |->
                           rs[reg[roomID]].Participants[rs[reg[roomID]].OwnerID]]
                 ELSE [status |-> StatusUnauthorized, body |-> l.err,
                       room |-> 0, participant |-> 0]

\* ServeHTTP up to the upgrade: a request without a token, or with a token
\* that LookupParticipant does not resolve, is answered with 401 and the
\* error's text.
Authorize(reg, rs, roomID, token) ==
    IF token = EmptyString
    THEN [status |-> StatusUnauthorized, body |-> ErrMissingToken,
          room |-> 0, participant |-> 0]
    ELSE LET l == LookupParticipant(reg, rs, roomID, token)
         IN IF l.err # NoError
            THEN [status |-> StatusUnauthorized, body |-> l.err,
                  room |-> 0, participant |-> 0]
            ELSE [status |-> StatusSwitchingProtocols, body |-> NoError,
                  room |-> l.room, participant |-> l.participant]

\* The connection that the upgrade returns to the handler that was asked for
\* roomID with token and got room r and participant p, with the handler's
\* copies of the participant's constant fields; no send loop runs for it
\* yet.
NewConn(roomID, token, r, p) ==
    [roomID |-> roomID,
     token  |-> token,
     room   |-> r,
     part   |-> p,
     userID |-> parts[p].ID,
     isHost |-> parts[p].IsHost,
     pc     |-> "upgraded",
     rd     |-> 0,
     open   |-> TRUE,
     loop   |-> "none",
     batch  |-> <<>>]

\* p.BindConnection(conn): p.conn = conn.
BindConnection(hd, p, t) == [hd EXCEPT ![p] = t]

\* p.Close(): the connection p is bound to is closed and the binding
\* cleared.
Close(hd, cs, p) ==
    IF hd[p] # 0
    THEN [handle |-> [hd EXCEPT ![p] = 0],
          conns  |-> [cs EXCEPT ![hd[p]].open = FALSE]]
    ELSE [handle |-> hd, conns |-> cs]

RECURSIVE Writes(_, _, _)
\* The writes of the messages to connection t by the send loop of handler by.
Writes(messages, t, by) ==
    IF messages = <<>>
    THEN <<>>
    ELSE <<[data |-> Head(messages), to |-> t, by |-> by]>>
             \o Writes(Tail(messages), t, by)

\* p.sendBatch(messages) in the send loop that handler `by` started: each
\* message is written to p.conn in turn; the first write that fails, as
\* every write to a closed connection does, ends the batch.
sendBatch(wr, hd, cs, p, by, messages) ==
    IF cs[hd[p]].open
    THEN [wr EXCEPT ![p] = @ \o Writes(messages, hd[p], by)]
    ELSE wr

\* A request for the websocket of room roomID with a token.
Connect ==
    \E roomID \in RoomIds, token \in TokenIds \cup {EmptyString} :
        LET a == Authorize(registry, rooms, roomID, token)
        IN /\ IF a.status = StatusUnauthorized
              THEN conns' = conns
              ELSE /\ Len(conns) < MaxConns
                   /\ conns' = Append(conns, NewConn(roomID, token, a.room,
                                                       a.participant))
           /\ last' = [op |-> "Connect", status |-> a.status, body |-> a.body]
           /\ UNCHANGED <<rooms, parts, send, registry, calls, boxVars, fault, sent>>

\* ServeHTTP: participant.BindConnection(conn).
ConnBind ==
    \E t \in DOMAIN conns :
        /\ conns[t].pc = "upgraded"
        /\ handle' = BindConnection(handle, conns[t].part, t)
        /\ conns' = [conns EXCEPT ![t].pc = "bound"]
        /\ last' = NoReturn
        /\ UNCHANGED <<rooms, parts, send, registry, calls, mail, enq, wrote,
                       fault, sent>>

\* ServeHTTP: go participant.SendLoop().
ConnStartLoop ==
    \E t \in DOMAIN conns :
        /\ conns[t].pc = "bound"
        /\ conns' = [conns EXCEPT ![t].pc = "started", ![t].loop = "running"]
        /\ last' = NoReturn
        /\ UNCHANGED <<rooms, parts, send, registry, calls, boxVars, fault, sent>>

\* ServeHTTP: participant.Send of the room's state; the read loop follows.
ConnSendState ==
    \E t \in DOMAIN conns :
        LET p        == conns[t].part
            envelope == RoomStateEnvelope(StateSnapshot(rooms[conns[t].room]))
            e        == Send(mail, send, p, envelope)
        IN /\ conns[t].pc = "started"
           /\ mail' = e.mail
           /\ enq' = Accepted(enq, mail, e.mail, p, envelope)
           /\ fault' = e.panic
           /\ conns' = IF e.panic THEN conns ELSE [conns EXCEPT ![t].pc = "active"]
           /\ last' = NoReturn
           /\ UNCHANGED <<rooms, parts, send, registry, calls, handle, wrote, sent>>

\* The send loop that handler t started receives from the mailbox: a message
\* joins the batch, or is dropped while the participant has no connection,
\* and a batch of batchSize messages is written; a mailbox that is closed
\* and empty ends the loop, whose deferred p.Close() runs.
LoopReceive ==
    \E t \in DOMAIN conns :
        LET p == conns[t].part
        IN /\ conns[t].loop = "running"
           /\ IF mail[p] # <<>>
              THEN LET batch == Append(conns[t].batch, Head(mail[p]))
                   IN /\ mail' = [mail EXCEPT ![p] = Tail(@)]
                      /\ IF handle[p] = 0
                         THEN UNCHANGED <<conns, wrote>>
                         ELSE IF Len(batch) >= batchSize
                              THEN /\ wrote' = sendBatch(wrote, handle, conns, p, t, batch)
                                   /\ conns' = [conns EXCEPT ![t].batch = <<>>]
                              ELSE /\ conns' = [conns EXCEPT ![t].batch = batch]
                                   /\ wrote' = wrote
                      /\ handle' = handle
              ELSE LET c == Close(handle, conns, p)
                   IN /\ send[p] > 0
                      /\ handle' = c.handle
                      /\ conns' = [c.conns EXCEPT ![t].loop = "exited"]
                      /\ UNCHANGED <<mail, wrote>>
           /\ last' = NoReturn
           /\ UNCHANGED <<rooms, parts, send, registry, calls, enq, fault, sent>>

\* The timer of the send loop that handler t started fires while the batch
\* holds messages and the participant has a connection: the batch is
\* written.
LoopTimer ==
    \E t \in DOMAIN conns :
        LET p == conns[t].part
        IN /\ conns[t].loop = "running"
           /\ conns[t].batch # <<>>
           /\ handle[p] # 0
           /\ wrote' = sendBatch(wrote, handle, conns, p, t, conns[t].batch)
           /\ conns' = [conns EXCEPT ![t].batch = <<>>]
           /\ last' = NoReturn
           /\ UNCHANGED <<rooms, parts, send, registry, calls, mail, handle, enq,
                          fault, sent>>

\* One goroutine broadcasts the state that the room it holds has after the
\* next seek, to position sent + 1.
BroadcastNumbered ==
    /\ sent < MaxMsgs
    /\ Pending("Broadcast") = {}
    /\ \E r \in HeldRooms :
           BroadcastCopyOf(r, RoomStateEnvelope(
               [StateSnapshot(rooms[r]) EXCEPT !.Position = sent + 1]))
    /\ sent' = sent + 1

\* A request while at most one connection has been upgraded.
ConnectFirstTwo == Len(conns) <= 1 /\ Connect

\* One room and its host, two connections that present the host's token, the
\* requests that are rejected, the send loops and the broadcasts that fill
\* the host's mailbox.
NextConn ==
    \/ fault = FALSE /\ CreateOneRoom
    \/ fault = FALSE /\ CreateRoomAttach
    \/ fault = FALSE /\ ConnectFirstTwo
    \/ fault = FALSE /\ ConnBind
    \/ fault = FALSE /\ ConnStartLoop
    \/ fault = FALSE /\ ConnSendState
    \/ fault = FALSE /\ BroadcastNumbered
    \/ fault = FALSE /\ BroadcastSend
    \/ fault = FALSE /\ LoopReceive
    \/ fault = FALSE /\ LoopTimer
    \/ fault = FALSE /\ DetachParticipantCall

SpecConn == Init /\ [][NextConn]_vars

(* ------------------------------ read loops ------------------------------ *)

\* protocol.Envelope{Kind: "ERROR", Data: protocol.ErrorPayload{...}}
ErrorEnvelope(code, message) ==
    Envelope("ERROR", [Code |-> code, Message |-> message])

\* The controls the clients of the read loops send: a seek stamped by the
\* client, and a play at the start that leaves the stamp to the server.
ReadControls ==
    {Seek, [Position |-> 0, VideoURL |-> <<>>, Playing |-> <<TRUE>>, IssuedAt |-> 0]}

\* The frames a client sends.  json tells whether the frame decodes as an
\* InboundEnvelope; Data holds the decoded payload, or nothing when the
\* payload does not decode as what its kind calls for.
Frames ==
    {[json |-> FALSE, Kind |-> "", Data |-> <<>>]}
        \cup {[json |-> TRUE, Kind |-> "CONTROL", Data |-> <<c>>] : c \in ReadControls}
        \cup {[json |-> TRUE, Kind |-> k, Data |-> <<>>] :
                  k \in {"CONTROL", "SYNC_REQUEST", "PING"}}
        \cup {[json |-> TRUE, Kind |-> "SYNC_REQUEST", Data |-> <<"sync">>]}

\* time.Now().UTC() where the read loop stamps a control.
Now == 1

\* The control the read loop applies: a zero IssuedAt is set to the clock.
Stamped(control) ==
    IF control.IssuedAt = 0 THEN [control EXCEPT !.IssuedAt = Now] ELSE control

\* Whether handler t is inside a call of room.Broadcast.
Broadcasting(t) ==
    \E c \in calls :
        c.op \in {"Control", "Broadcast"} /\ "conn" \in DOMAIN c /\ c.conn = t

\* readLoop's entry: conn := participant.Connection(); without a connection
\* the loop returns at once.
ConnReadLoop ==
    \E t \in DOMAIN conns :
        /\ conns[t].pc = "active"
        /\ conns' = [conns EXCEPT
               ![t].rd = handle[conns[t].part],
               ![t].pc = IF handle[conns[t].part] = 0 THEN "closed" ELSE "reading"]
        /\ last' = NoReturn
        /\ UNCHANGED <<rooms, parts, send, registry, calls, boxVars, fault, sent>>

\* The reply of the read loop of handler t to a frame, for the frames it
\* answers with participant.Send: the envelope, or nothing.
Reply(t, frame) ==
    IF ~frame.json THEN <<>>
    ELSE IF frame.Kind = "CONTROL"
         THEN IF ~conns[t].isHost
              THEN <<ErrorEnvelope("unauthorized", ErrUnauthorizedControl)>>
              ELSE <<>>
    ELSE IF frame.Kind = "SYNC_REQUEST"
         THEN IF frame.Data = <<>>
              THEN <<>>
              ELSE <<RoomStateEnvelope(StateSnapshot(rooms[conns[t].room]))>>
    ELSE <<ErrorEnvelope("unknown_kind", "unsupported message type")>>

\* One turn of readLoop in handler t: a frame is read from the connection
\* and handled up to the end of its first critical section.  A host's
\* control that decodes is applied; when ApplyControl accepts it the
\* broadcast of the state it returned is due, when it refuses the error is
\* sent to the participant.  Every other frame is answered with
\* participant.Send or skipped.
ReadMessage ==
    \E t \in DOMAIN conns :
      \E frame \in Frames :
        LET p       == conns[t].part
            applies == frame.json /\ frame.Kind = "CONTROL" /\ conns[t].isHost
                           /\ frame.Data # <<>>
            a       == ApplyControl(rooms, parts, conns[t].room, conns[t].userID,
                                    Stamped(frame.Data[1]))
            reply   == IF applies
                       THEN IF a.err # NoError
                            THEN <<ErrorEnvelope("control_failed", a.err)>>
                            ELSE <<>>
                       ELSE Reply(t, frame)
            e       == IF reply # <<>>
                       THEN Send(mail, send, p, reply[1])
                       ELSE [mail |-> mail, panic |-> FALSE]
        IN /\ conns[t].pc = "reading"
           /\ conns[conns[t].rd].open
           /\ ~Broadcasting(t)
           /\ sent < MaxMsgs
           /\ sent' = sent + 1
           /\ rooms' = IF applies THEN a.rooms ELSE rooms
           /\ calls' = IF applies /\ a.err = NoError
                       THEN calls \cup {[op |-> "Control", room |-> conns[t].room,
                                         data |-> RoomStateEnvelope(a.state),
                                         conn |-> t]}
                       ELSE calls
           /\ mail' = e.mail
           /\ enq' = IF reply # <<>>
                     THEN Accepted(enq, mail, e.mail, p, reply[1])
                     ELSE enq
           /\ fault' = e.panic
           /\ last' = [op |-> "ReadMessage", conn |-> t, frame |-> frame]
           /\ UNCHANGED <<parts, send, registry, handle, conns, wrote>>

\* room.Broadcast in the read loop, up to r.mu.RUnlock(): the participants of
\* the room are copied into the list.
ControlBroadcast ==
    \E c \in calls :
        /\ c.op = "Control"
        /\ LET todo == {rooms[c.room].Participants[u] :
                            u \in DOMAIN rooms[c.room].Participants}
           IN calls' = IF todo = {}
                       THEN calls \ {c}
                       ELSE (calls \ {c}) \cup
                                {[op |-> "Broadcast", room |-> c.room,
                                  data |-> c.data, todo |-> todo, conn |-> c.conn]}
        /\ last' = NoReturn
        /\ UNCHANGED <<rooms, parts, send, registry, boxVars, netVars>>

\* conn.ReadMessage() fails in handler t, the peer gone or the connection
\* closed: readLoop returns and its deferred participant.Close() closes the
\* connection the participant is bound to.
ReadError ==
    \E t \in DOMAIN conns :
        LET gone == [conns EXCEPT ![conns[t].rd].open = FALSE]
            c    == Close(handle, gone, conns[t].part)
        IN /\ conns[t].pc = "reading"
           /\ ~Broadcasting(t)
           /\ handle' = c.handle
           /\ conns' = [c.conns EXCEPT ![t].pc = "closed"]
           /\ last' = NoReturn
           /\ UNCHANGED <<rooms, parts, send, registry, calls, mail, enq, wrote,
                          fault, sent>>

\* ServeHTTP after readLoop: room.DetachParticipant(participant.ID).
ConnDetach ==
    \E t \in DOMAIN conns :
        LET a == DetachParticipant(rooms, parts, send, conns[t].room, conns[t].userID)
        IN /\ conns[t].pc = "closed"
           /\ rooms' = a.rooms
           /\ parts' = a.parts
           /\ send' = a.send
           /\ conns' = [conns EXCEPT ![t].pc = "detached"]
           /\ last' = NoReturn
           /\ UNCHANGED <<registry, calls, boxVars, fault, sent>>

\* ServeHTTP's h.manager.CleanupRoom(room) up to room.ID(): a room that has
\* participants ends the call, and with it the handler.
ConnCleanup ==
    \E t \in DOMAIN conns :
        /\ conns[t].pc = "detached"
        /\ IF ParticipantCount(rooms[conns[t].room]) > 0
           THEN /\ conns' = [conns EXCEPT ![t].pc = "done"]
                /\ last' = [op |-> "CleanupRoom", room |-> conns[t].room,
                            deleted |-> FALSE]
           ELSE /\ conns' = [conns EXCEPT ![t].pc = "cleanup"]
                /\ last' = NoReturn
        /\ UNCHANGED <<rooms, parts, send, registry, calls, boxVars, fault, sent>>

\* The handler's CleanupRoom from m.mu.Lock() to its return, the end of the
\* handler.
ConnCleanupDelete ==
    \E t \in DOMAIN conns :
        /\ conns[t].pc = "cleanup"
        /\ registry' = CleanupRegistry(registry, rooms, conns[t].room)
        /\ conns' = [conns EXCEPT ![t].pc = "done"]
        /\ last' = [op |-> "CleanupRoom", room |-> conns[t].room,
                    deleted |-> CleanupDeletes(registry, rooms, conns[t].room)]
        /\ UNCHANGED <<rooms, parts, send, calls, boxVars, fault, sent>>

\* A JoinRoom of the registered room before any connection is requested.
JoinBeforeConnect == conns = <<>> /\ JoinRoomLookup /\ calls' # calls

\* A request that is upgraded, made while every earlier connection is in its
\* read loop.
ConnectInTurn ==
    /\ \A t \in DOMAIN conns : conns[t].pc = "reading"
    /\ ConnectFirstTwo
    /\ conns' # conns

\* The frame that asks for the room's state.
SyncFrame == [json |-> TRUE, Kind |-> "SYNC_REQUEST", Data |-> <<"sync">>]

\* The first frame of a run, any frame, and the second, a SYNC_REQUEST.
ReadTwo ==
    /\ ReadMessage
    /\ sent = 0 \/ (sent = 1 /\ last'.frame = SyncFrame)

\* One room, its host and a guest, two connections and their read loops up
\* to the detach; no send loop is scheduled.
NextRead ==
    \/ fault = FALSE /\ CreateOneRoom
    \/ fault = FALSE /\ CreateRoomAttach
    \/ fault = FALSE /\ JoinBeforeConnect
    \/ fault = FALSE /\ JoinFirstGuest
    \/ fault = FALSE /\ ConnectInTurn
    \/ fault = FALSE /\ ConnBind
    \/ fault = FALSE /\ ConnStartLoop
    \/ fault = FALSE /\ ConnSendState
    \/ fault = FALSE /\ ConnReadLoop
    \/ fault = FALSE /\ ReadTwo
    \/ fault = FALSE /\ ControlBroadcast
    \/ fault = FALSE /\ BroadcastSend
    \/ fault = FALSE /\ ReadError
    \/ fault = FALSE /\ ConnDetach

SpecRead == Init /\ [][NextRead]_vars

(* ------------------------- the initial room state ------------------------ *)

\* A broadcast of the room's state before any connection is requested.
BroadcastBeforeConnect == conns = <<>> /\ BroadcastState

\* The only request of a run.
ConnectOnce == conns = <<>> /\ Connect

\* One room and the participant that CreateRoom attaches, the broadcasts
\* that reach its mailbox between the attach and the request for its
\* connection, and that connection with its send loop.  A participant that
\* JoinRoom attaches takes the same path from AttachParticipant on.
NextHello ==
    \/ fault = FALSE /\ CreateOneRoom
    \/ fault = FALSE /\ CreateRoomAttach
    \/ fault = FALSE /\ BroadcastBeforeConnect
    \/ fault = FALSE /\ BroadcastSend
    \/ fault = FALSE /\ ConnectOnce
    \/ fault = FALSE /\ ConnBind
    \/ fault = FALSE /\ ConnStartLoop
    \/ fault = FALSE /\ ConnSendState
    \/ fault = FALSE /\ LoopReceive
    \/ fault = FALSE /\ LoopTimer

SpecHello == Init /\ [][NextHello]_vars

(* ------------------------- the end of a connection ----------------------- *)

\* One room, its host and a guest that JoinRoom attaches at any time, two
\* connections up to their read loops, and the handlers' way out: the read
\* error, the detach and CleanupRoom.  No frame is read.
NextClose ==
    \/ fault = FALSE /\ CreateOneRoom
    \/ fault = FALSE /\ CreateRoomAttach
    \/ fault = FALSE /\ JoinRoomLookup
    \/ fault = FALSE /\ JoinFirstGuest
    \/ fault = FALSE /\ ConnectFirstTwo
    \/ fault = FALSE /\ ConnBind
    \/ fault = FALSE /\ ConnStartLoop
    \/ fault = FALSE /\ ConnSendState
    \/ fault = FALSE /\ ConnReadLoop
    \/ fault = FALSE /\ ReadError
    \/ fault = FALSE /\ ConnDetach
    \/ fault = FALSE /\ ConnCleanup
    \/ fault = FALSE /\ ConnCleanupDelete

SpecClose == Init /\ [][NextClose]_vars

(* ----------------------- the send loop, step by step -------------------- *)

\* SendLoop's receive from the mailbox, up to the call of sendBatch: a
\* message joins the batch, or is dropped while p.conn is nil; a batch of
\* batchSize messages is handed to sendBatch.  A mailbox that is closed and
\* empty ends the loop, whose deferred p.Close() runs.
LoopTake ==
    \E t \in DOMAIN conns :
        LET p == conns[t].part
        IN /\ conns[t].loop = "running"
           /\ IF mail[p] # <<>>
              THEN LET batch == Append(conns[t].batch, Head(mail[p]))
                   IN /\ mail' = [mail EXCEPT ![p] = Tail(@)]
                      /\ conns' = IF handle[p] = 0
                                  THEN conns
                                  ELSE [conns EXCEPT
                                          ![t].batch = batch,
                                          ![t].loop = IF Len(batch) >= batchSize
                                                      THEN "writing" ELSE "running"]
                      /\ handle' = handle
              ELSE LET c == Close(handle, conns, p)
                   IN /\ send[p] > 0
                      /\ handle' = c.handle
                      /\ conns' = [c.conns EXCEPT ![t].loop = "exited"]
                      /\ mail' = mail
           /\ last' = NoReturn
           /\ UNCHANGED <<rooms, parts, send, registry, calls, enq, wrote, fault, sent>>

\* SendLoop's timer case: len(messageBatch) > 0 && p.conn != nil, and the
\* batch is handed to sendBatch.
LoopTimerFires ==
    \E t \in DOMAIN conns :
        /\ conns[t].loop = "running"
        /\ conns[t].batch # <<>>
        /\ handle[conns[t].part] # 0
        /\ conns' = [conns EXCEPT ![t].loop = "writing"]
        /\ last' = NoReturn
        /\ UNCHANGED <<rooms, parts, send, registry, calls, boxVars, fault, sent>>

\* One turn of sendBatch's loop: p.conn is read again for SetWriteDeadline
\* and for the write.  On a nil p.conn the method call dereferences a nil
\* pointer and panics; a write that fails ends the batch; the last message
\* written ends it too.
LoopWrite ==
    \E t \in DOMAIN conns :
        LET p == conns[t].part
        IN /\ conns[t].loop = "writing"
           /\ IF handle[p] = 0
              THEN /\ fault' = TRUE
                   /\ UNCHANGED <<conns, wrote>>
              ELSE /\ fault' = fault
                   /\ IF conns[handle[p]].open
                      THEN /\ wrote' = [wrote EXCEPT ![p] =
                                  Append(@, [data |-> Head(conns[t].batch),
                                             to |-> handle[p], by |-> t])]
                           /\ conns' = [conns EXCEPT
                                  ![t].batch = Tail(@),
                                  ![t].loop = IF Tail(conns[t].batch) = <<>>
                                              THEN "running" ELSE "writing"]
                      ELSE /\ wrote' = wrote
                           /\ conns' = [conns EXCEPT ![t].batch = <<>>,
                                                     ![t].loop = "running"]
           /\ last' = NoReturn
           /\ UNCHANGED <<rooms, parts, send, registry, calls, mail, handle, enq, sent>>

\* One room and its host, two connections of the host with their send loops
\* taken step by step, the broadcasts they write, and the handlers' way out
\* of the read loop up to the detach.
NextLoop ==
    \/ fault = FALSE /\ CreateOneRoom
    \/ fault = FALSE /\ CreateRoomAttach
    \/ fault = FALSE /\ ConnectInTurn
    \/ fault = FALSE /\ ConnBind
    \/ fault = FALSE /\ ConnStartLoop
    \/ fault = FALSE /\ ConnSendState
    \/ fault = FALSE /\ ConnReadLoop
    \/ fault = FALSE /\ LoopTake
    \/ fault = FALSE /\ LoopTimerFires
    \/ fault = FALSE /\ LoopWrite
    \/ fault = FALSE /\ ReadError
    \/ fault = FALSE /\ ConnDetach

\* The goroutine of a send loop is scheduled again and again: a step of the
\* loops that stays possible is taken.
SpecLoop ==
    /\ Init /\ [][NextLoop]_vars
    /\ WF_vars(fault = FALSE /\ LoopTake)
    /\ WF_vars(fault = FALSE /\ LoopTimerFires)
    /\ WF_vars(fault = FALSE /\ LoopWrite)

(* --------------------------------- locks -------------------------------- *)

\* Manager.mu and the mu of room r.
ManagerMu == <<"manager", 0>>
RoomMu(r) == <<"room", r>>

\* mu.Lock() ... mu.Unlock() and mu.RLock() ... mu.RUnlock() around code
\* that takes no lock.
Locked(mu) == <<[do |-> "Lock", on |-> mu], [do |-> "Unlock", on |-> mu]>>
RLocked(mu) == <<[do |-> "RLock", on |-> mu], [do |-> "RUnlock", on |-> mu]>>

\* The lock operations of the methods of Room, in the order in which a call
\* performs them.
AttachParticipantLocks(r) == Locked(RoomMu(r))
FindByTokenLocks(r) == RLocked(RoomMu(r))
StateSnapshotLocks(r) == RLocked(RoomMu(r))
BroadcastLocks(r) == RLocked(RoomMu(r))
ApplyControlLocks(r) == Locked(RoomMu(r))
DetachParticipantLocks(r) == Locked(RoomMu(r))
ParticipantCountLocks(r) == RLocked(RoomMu(r))

\* The lock operations of the methods of Manager on a room that is
\* registered, and of a call that ends at an unknown room id.
CreateRoomLocks(r) ==
    Locked(ManagerMu) \o AttachParticipantLocks(r) \o StateSnapshotLocks(r)
JoinRoomLocks(r) ==
    RLocked(ManagerMu) \o AttachParticipantLocks(r) \o StateSnapshotLocks(r)
GetStateLocks(r) == RLocked(ManagerMu) \o StateSnapshotLocks(r)
LookupParticipantLocks(r) == RLocked(ManagerMu) \o FindByTokenLocks(r)
RoomNotFoundLocks == RLocked(ManagerMu)

\* CleanupRoom that counts the participants while it holds m.mu.
CleanupRoomLocksNested(r) ==
    <<[do |-> "Lock", on |-> ManagerMu]>> \o ParticipantCountLocks(r)
        \o <<[do |-> "Unlock", on |-> ManagerMu]>>

\* CleanupRoom of an empty room: the count, then the registry.
CleanupRoomLocks(r) == ParticipantCountLocks(r) \o Locked(ManagerMu)

\* What a goroutine may run.  A connection handler runs these operations
\* one after the other and takes no lock of its own.
LockPrograms ==
    {RoomNotFoundLocks} \cup UNION {
        {AttachParticipantLocks(r), FindByTokenLocks(r), StateSnapshotLocks(r),
         BroadcastLocks(r), ApplyControlLocks(r), DetachParticipantLocks(r),
         ParticipantCountLocks(r), CreateRoomLocks(r), JoinRoomLocks(r),
         GetStateLocks(r), LookupParticipantLocks(r), CleanupRoomLocks(r)} : r \in 1..MaxRooms}

\* The goroutines inside an operation.  A goroutine is a record of `calls`:
\* the lock operations it has yet to perform, the locks it holds and whether
\* it has announced itself as a writer.
Threads == Pending("goroutine")

\* Whether some goroutine holds mu in the given mode, and whether a writer
\* waits for mu.  sync.RWMutex lets no reader in while a writer waits.
Holds(mu, mode) ==
    \E c \in Threads : \E i \in DOMAIN c.held : c.held[i] = [on |-> mu, mode |-> mode]
WriterWaits(mu) ==
    \E c \in Threads : c.wait /\ Head(c.rest).on = mu

\* A goroutine starts an operation.
ThreadStart ==
    \E id \in 1..MaxConns, prog \in LockPrograms :
        /\ \A c \in Threads : c.id # id
        /\ calls' = calls \cup {[op |-> "goroutine", id |-> id, rest |-> prog,
                                  held |-> <<>>, wait |-> FALSE]}
        /\ UNCHANGED <<rooms, parts, send, registry, last, boxVars, netVars>>

\* The goroutine after the operation of c that is next, with the locks
\* `held`; a goroutine that has performed its last operation is gone.
Advance(c, held) ==
    IF Len(c.rest) = 1
    THEN calls \ {c}
    ELSE (calls \ {c}) \cup {[c EXCEPT !.rest = Tail(@), !.held = held, !.wait = FALSE]}

\* mu.Lock() begins: the writer is announced.
ThreadAnnounce ==
    \E c \in Threads :
        /\ Head(c.rest).do = "Lock"
        /\ ~c.wait
        /\ calls' = (calls \ {c}) \cup {[c EXCEPT !.wait = TRUE]}
        /\ UNCHANGED <<rooms, parts, send, registry, last, boxVars, netVars>>

\* mu.Lock() returns when nobody holds mu; mu.RLock() returns when no
\* writer holds mu or waits for it.
ThreadAcquire ==
    \E c \in Threads :
        LET mu == Head(c.rest).on
        IN /\ \/ /\ Head(c.rest).do = "Lock"
                 /\ c.wait
                 /\ ~Holds(mu, "w") /\ ~Holds(mu, "r")
                 /\ calls' = Advance(c, Append(c.held, [on |-> mu, mode |-> "w"]))
              \/ /\ Head(c.rest).do = "RLock"
                 /\ ~Holds(mu, "w") /\ ~WriterWaits(mu)
                 /\ calls' = Advance(c, Append(c.held, [on |-> mu, mode |-> "r"]))
           /\ UNCHANGED <<rooms, parts, send, registry, last, boxVars, netVars>>

\* mu.Unlock() and mu.RUnlock(): the lock taken last is given back.
ThreadRelease ==
    \E c \in Threads :
        /\ Head(c.rest).do \in {"Unlock", "RUnlock"}
        /\ c.held # <<>>
        /\ c.held[Len(c.held)].on = Head(c.rest).on
        /\ calls' = Advance(c, SubSeq(c.held, 1, Len(c.held) - 1))
        /\ UNCHANGED <<rooms, parts, send, registry, last, boxVars, netVars>>

\* Goroutines that run the operations of Manager, of Room and of the
\* handlers on the locks alone.
NextLock ==
    \/ ThreadStart
    \/ ThreadAnnounce
    \/ ThreadAcquire
    \/ ThreadRelease

SpecLock == Init /\ [][NextLock]_vars

(* ------------------- ApplyControl and StateSnapshot, by field ----------- *)

\* The goroutines inside r.ApplyControl and inside r.StateSnapshot.  Each is
\* a record of `calls` with the statement it is at; an ApplyControl keeps
\* the room as it found it after r.mu.Lock().
Applying == Pending("ApplyControlSteps")
Reading == Pending("StateSnapshotSteps")

\* r.mu is held by a writer, or by a reader.
WriteHeld(r) == \E c \in Applying : c.room = r /\ c.pc # "Lock"
ReadHeld(r) == \E c \in Reading : c.room = r /\ c.pc # "RLock"

\* r.mu.Lock() returns when nobody holds r.mu.
MayLock(r) == ~WriteHeld(r) /\ ~ReadHeld(r)

\* StateSnapshot that reads the fields without r.mu.RLock().
MayRLockUnlocked(r) == TRUE

\* r.mu.RLock() returns when no writer holds r.mu.
MayRLock(r) == ~WriteHeld(r)

\* A goroutine calls r.ApplyControl or r.StateSnapshot on a room that has
\* its host.
FieldCallBegin ==
    \E id \in 1..MaxConns, r \in HeldRooms, op \in {"ApplyControlSteps", "StateSnapshotSteps"} :
        /\ ParticipantCount(rooms[r]) > 0
        /\ \A c \in Applying \cup Reading : c.id # id
        /\ calls' = calls \cup
             {IF op = "ApplyControlSteps"
              THEN [op |-> op, id |-> id, room |-> r, pc |-> "Lock"]
              ELSE [op |-> op, id |-> id, room |-> r, pc |-> "RLock"]}
        /\ UNCHANGED <<rooms, parts, send, registry, last, boxVars, netVars>>

\* r.mu.Lock() returns in ApplyControl(senderID, control) and the sender is
\* tested: a sender that is no host makes the call return.
ApplyLock ==
    \E c \in Applying, senderID \in UserIds, control \in Controls :
        LET room == rooms[c.room]
            ok   == senderID \in DOMAIN room.Participants
            d    == [op |-> c.op, id |-> c.id, room |-> c.room,
                     sender |-> senderID, control |-> control, before |-> room,
                     pc |-> IF ~ok \/ ~parts[room.Participants[senderID]].IsHost
                            THEN "unauthorized" ELSE "Position"]
        IN /\ c.pc = "Lock"
           /\ MayLock(c.room)
           /\ calls' = (calls \ {c}) \cup {d}
           /\ UNCHANGED <<rooms, parts, send, registry, last, boxVars, netVars>>

\* One assignment of ApplyControl: r.Position, r.VideoURL, r.IsPlaying,
\* r.UpdatedAt, in this order.
ApplyWrite ==
    \E c \in Applying :
        LET room == rooms[c.room]
        IN /\ c.pc \in {"Position", "VideoURL", "IsPlaying", "UpdatedAt"}
           /\ rooms' = [rooms EXCEPT ![c.room] =
                CASE c.pc = "Position" -> [room EXCEPT !.Position = c.control.Position]
                  [] c.pc = "VideoURL" ->
                        IF c.control.VideoURL # <<>>
                        THEN [room EXCEPT !.VideoURL = c.control.VideoURL[1]] ELSE room
                  [] c.pc = "IsPlaying" ->
                        IF c.control.Playing # <<>>
                        THEN [room EXCEPT !.IsPlaying = c.control.Playing[1]] ELSE room
                  [] c.pc = "UpdatedAt" -> [room EXCEPT !.UpdatedAt = c.control.IssuedAt]]
           /\ calls' = (calls \ {c}) \cup
                {[c EXCEPT !.pc = CASE c.pc = "Position" -> "VideoURL"
                                    [] c.pc = "VideoURL" -> "IsPlaying"
                                    [] c.pc = "IsPlaying" -> "UpdatedAt"
                                    [] c.pc = "UpdatedAt" -> "return"]}
           /\ UNCHANGED <<parts, send, registry, last, boxVars, netVars>>

\* ApplyControl returns: the RoomState is built from the fields, or the
\* error is returned, and the deferred r.mu.Unlock() runs.
ApplyReturn ==
    \E c \in Applying :
        /\ c.pc \in {"return", "unauthorized"}
        /\ calls' = calls \ {c}
        /\ last' = IF c.pc = "return"
                   THEN [op |-> "ApplyControl", room |-> c.room,
                         state |-> [RoomID    |-> rooms[c.room].Id,
                                    VideoURL  |-> rooms[c.room].VideoURL,
                                    IsPlaying |-> rooms[c.room].IsPlaying,
                                    Position  |-> rooms[c.room].Position,
                                    OwnerID   |-> rooms[c.room].OwnerID,
                                    UpdatedAt |-> rooms[c.room].UpdatedAt],
                         err |-> NoError]
                   ELSE [op |-> "ApplyControl", room |-> c.room,
                         state |-> ZeroRoomState, err |-> ErrUnauthorizedControl]
        /\ UNCHANGED <<rooms, parts, send, registry, boxVars, netVars>>

\* r.mu.RLock() returns in StateSnapshot.
SnapshotRLock ==
    \E c \in Reading :
        /\ c.pc = "RLock"
        /\ MayRLock(c.room)
        /\ calls' = (calls \ {c}) \cup
             {[op |-> c.op, id |-> c.id, room |-> c.room, pc |-> "RoomID",
               got |-> ZeroRoomState]}
        /\ UNCHANGED <<rooms, parts, send, registry, last, boxVars, netVars>>

\* One field of the RoomState that StateSnapshot builds is read from the
\* room, in the order of the literal.
SnapshotRead ==
    \E c \in Reading :
        LET room == rooms[c.room]
        IN /\ c.pc \in {"RoomID", "VideoURL", "IsPlaying", "Position", "OwnerID", "UpdatedAt"}
           /\ calls' = (calls \ {c}) \cup
                {CASE c.pc = "RoomID" ->
                        [c EXCEPT !.got.RoomID = room.Id, !.pc = "VideoURL"]
                   [] c.pc = "VideoURL" ->
                        [c EXCEPT !.got.VideoURL = room.VideoURL, !.pc = "IsPlaying"]
                   [] c.pc = "IsPlaying" ->
                        [c EXCEPT !.got.IsPlaying = room.IsPlaying, !.pc = "Position"]
                   [] c.pc = "Position" ->
                        [c EXCEPT !.got.Position = room.Position, !.pc = "OwnerID"]
                   [] c.pc = "OwnerID" ->
                        [c EXCEPT !.got.OwnerID = room.OwnerID, !.pc = "UpdatedAt"]
                   [] c.pc = "UpdatedAt" ->
                        [c EXCEPT !.got.UpdatedAt = room.UpdatedAt, !.pc = "return"]}
           /\ UNCHANGED <<rooms, parts, send, registry, last, boxVars, netVars>>

\* StateSnapshot returns and the deferred r.mu.RUnlock() runs.
SnapshotReturn ==
    \E c \in Reading :
        /\ c.pc = "return"
        /\ calls' = calls \ {c}
        /\ last' = [op |-> "StateSnapshot", room |-> c.room, state |-> c.got]
        /\ UNCHANGED <<rooms, parts, send, registry, boxVars, netVars>>

\* One room and its host under goroutines that call ApplyControl and
\* StateSnapshot, statement by statement.
NextAtomic ==
    \/ CreateOneRoom
    \/ CreateRoomAttach
    \/ FieldCallBegin
    \/ ApplyLock
    \/ ApplyWrite
    \/ ApplyReturn
    \/ SnapshotRLock
    \/ SnapshotRead
    \/ SnapshotReturn

SpecAtomic == Init /\ [][NextAtomic]_vars

(* --------------------------- controls in a row --------------------------- *)

\* A CONTROL frame with a control that decodes.
ReadControl ==
    /\ ReadMessage
    /\ last'.frame.Kind = "CONTROL"
    /\ last'.frame.Data # <<>>

\* One room and its host, two connections that present the host's token and
\* the controls their read loops apply and broadcast; nobody detaches.
NextOrder ==
    \/ fault = FALSE /\ CreateOneRoom
    \/ fault = FALSE /\ CreateRoomAttach
    \/ fault = FALSE /\ ConnectInTurn
    \/ fault = FALSE /\ ConnBind
    \/ fault = FALSE /\ ConnStartLoop
    \/ fault = FALSE /\ ConnSendState
    \/ fault = FALSE /\ ConnReadLoop
    \/ fault = FALSE /\ ReadControl
    \/ fault = FALSE /\ ControlBroadcast
    \/ fault = FALSE /\ BroadcastSend

SpecOrder == Init /\ [][NextOrder]_vars

(* ---------------------------- an idle connection ------------------------ *)

\* The idle period of the connection that handler t reads from elapses with
\* no frame from the client.  readLoop sets no read deadline: its
\* conn.ReadMessage() stays blocked, and nothing in the program changes.
IdleTimeout ==
    \E t \in DOMAIN conns :
        /\ conns[t].pc = "reading"
        /\ conns[conns[t].rd].open
        /\ last' = [op |-> "IdleTimeout", conn |-> t]
        /\ UNCHANGED <<rooms, parts, send, registry, calls, boxVars, netVars>>

\* One room, its host and a guest, one connection with its send loop, from
\* the request to the end of the handler; the client sends no frame.
NextIdle ==
    \/ fault = FALSE /\ CreateOneRoom
    \/ fault = FALSE /\ CreateRoomAttach
    \/ fault = FALSE /\ JoinBeforeConnect
    \/ fault = FALSE /\ JoinFirstGuest
    \/ fault = FALSE /\ ConnectOnce
    \/ fault = FALSE /\ ConnBind
    \/ fault = FALSE /\ ConnStartLoop
    \/ fault = FALSE /\ ConnSendState
    \/ fault = FALSE /\ ConnReadLoop
    \/ fault = FALSE /\ LoopReceive
    \/ fault = FALSE /\ LoopTimer
    \/ fault = FALSE /\ IdleTimeout
    \/ fault = FALSE /\ ReadError
    \/ fault = FALSE /\ ConnDetach
    \/ fault = FALSE /\ ConnCleanup
    \/ fault = FALSE /\ ConnCleanupDelete

\* The goroutines of the handler and of the send loop are scheduled again
\* and again: a step of theirs that stays possible is taken.  What the
\* client does, and when its connection fails, is under no such condition.
SpecIdle ==
    /\ Init /\ [][NextIdle]_vars
    /\ WF_vars(fault = FALSE /\ ConnDetach)
    /\ WF_vars(fault = FALSE /\ ConnCleanup)
    /\ WF_vars(fault = FALSE /\ ConnCleanupDelete)
    /\ WF_vars(fault = FALSE /\ LoopReceive)
    /\ WF_vars(fault = FALSE /\ LoopTimer)

(* --------------------------- the state on request ------------------------ *)

\* A broadcast of the room's state after the JoinRoom of the guest and
\* before any connection is requested.
BroadcastBeforeRead ==
    /\ Len(send) = 2
    /\ Pending("JoinRoom") = {}
    /\ BroadcastBeforeConnect

\* The first request for a connection, made when the broadcasts before it
\* have completed.
ConnectAfterBroadcasts == Pending("Broadcast") = {} /\ ConnectOnce

\* One room, its host and a guest, broadcasts that nobody drains, then the
\* connection of one of them and its read loop; no send loop is scheduled.
NextSync ==
    \/ fault = FALSE /\ CreateOneRoom
    \/ fault = FALSE /\ CreateRoomAttach
    \/ fault = FALSE /\ JoinBeforeConnect
    \/ fault = FALSE /\ JoinFirstGuest
    \/ fault = FALSE /\ BroadcastBeforeRead
    \/ fault = FALSE /\ BroadcastSend
    \/ fault = FALSE /\ ConnectAfterBroadcasts
    \/ fault = FALSE /\ ConnBind
    \/ fault = FALSE /\ ConnStartLoop
    \/ fault = FALSE /\ ConnSendState
    \/ fault = FALSE /\ ConnReadLoop
    \/ fault = FALSE /\ ReadTwo
    \/ fault = FALSE /\ ControlBroadcast

SpecSync == Init /\ [][NextSync]_vars

(* ------------------------------ properties ------------------------------ *)

\* The ids of the participants attached to room r as hosts.
Hosts(r) ==
    {u \in DOMAIN rooms[r].Participants : parts[rooms[r].Participants[u]].IsHost}

\* C1: ApplyControl by a sender that is not an attached host (a guest, an id
\* the room never held, an id that was detached) returns
\* ErrUnauthorizedControl and leaves every field of every room as it was,
\* whatever the control.
NonHostControlRejected ==
    \A r \in DOMAIN rooms :
        \A senderID \in UserIds \ Hosts(r), control \in Controls :
            LET a == ApplyControl(rooms, parts, r, senderID, control)
            IN /\ a.err = ErrUnauthorizedControl
               /\ a.rooms = rooms

\* A guest is attached next to the host, and the control it sent has just
\* been turned down.
NonHostControlRejectedWitness ==
    /\ last.op = "ApplyControl"
    /\ last.err = ErrUnauthorizedControl
    /\ last.sender \in DOMAIN rooms[last.room].Participants
    /\ Hosts(last.room) # {}

\* C2: no room has two attached participants with IsHost = TRUE, and the
\* owner id of StateSnapshot() is the id of the participant attached with
\* IsHost = TRUE.
SingleHostIsOwner ==
    \A r \in DOMAIN rooms :
        /\ Cardinality(Hosts(r)) <= 1
        /\ \A u \in Hosts(r) : StateSnapshot(rooms[r]).OwnerID = u

\* C3: the owner id of a room is empty, or it is the id of an attached
\* participant whose IsHost flag is TRUE (the participant map holds an id
\* once, so of exactly one).
OwnerUnsetOrAttachedHost ==
    \A r \in DOMAIN rooms :
        \/ rooms[r].OwnerID = EmptyString
        \/ rooms[r].OwnerID \in Hosts(r)

\* C4: for every token t and participant id p of a room, TokenIndex[t] = p
\* if and only if p is in the participant map and p's token is t.
TokenIndexExact ==
    \A r \in DOMAIN rooms, t \in TokenIds, p \in UserIds :
        (t \in DOMAIN rooms[r].TokenIndex /\ rooms[r].TokenIndex[t] = p)
            <=> (/\ p \in DOMAIN rooms[r].Participants
                 /\ parts[rooms[r].Participants[p]].Token = t)

\* C5: ApplyControl by the attached host succeeds for every control; after a
\* call that succeeded the position is the control's, the video and the
\* playing flag are the control's where it carries them, UpdatedAt is the
\* control's IssuedAt, and the RoomState returned is StateSnapshot() of the
\* room as the call left it.
HostControlApplied ==
    /\ \A r \in DOMAIN rooms :
           \A senderID \in Hosts(r), control \in Controls :
               ApplyControl(rooms, parts, r, senderID, control).err = NoError
    /\ (last.op = "ApplyControl" /\ last.err = NoError) =>
           LET control == last.applied[1]
               room    == rooms[last.room]
           IN /\ room.Position = control.Position
              /\ control.VideoURL # <<>> => room.VideoURL = control.VideoURL[1]
              /\ control.Playing # <<>> => room.IsPlaying = control.Playing[1]
              /\ room.UpdatedAt = control.IssuedAt
              /\ last.state = StateSnapshot(room)

\* The host's control with a video, a playing flag, a position and a
\* timestamp that all differ from those of a new room has been applied.
HostControlAppliedWitness ==
    /\ last.op = "ApplyControl"
    /\ last.err = NoError
    /\ last.applied[1] = [Position |-> 1, VideoURL |-> <<"b">>,
                          Playing |-> <<TRUE>>, IssuedAt |-> 1]
    /\ last.state.VideoURL = "b"
    /\ last.state.IsPlaying
    /\ last.state.UpdatedAt = 1

\* C6: an ApplyControl that succeeds leaves the video as it was when the
\* control omits the video, the playing flag as it was when the control
\* omits the flag, and the room's id, owner id, participant map and token
\* index, the participants and every other room as they were.
ControlKeepsTheRest ==
    \A r \in DOMAIN rooms, senderID \in UserIds, control \in Controls :
        LET a     == ApplyControl(rooms, parts, r, senderID, control)
            after == a.rooms[r]
        IN a.err = NoError =>
            /\ control.VideoURL = <<>> => after.VideoURL = rooms[r].VideoURL
            /\ control.Playing = <<>> => after.IsPlaying = rooms[r].IsPlaying
            /\ after.Id = rooms[r].Id
            /\ after.OwnerID = rooms[r].OwnerID
            /\ after.Participants = rooms[r].Participants
            /\ after.TokenIndex = rooms[r].TokenIndex
            /\ \A q \in DOMAIN rooms \ {r} : a.rooms[q] = rooms[q]

\* A control that omits the video and the playing flag has been applied to a
\* room that plays video "b" next to a guest.
ControlKeepsTheRestWitness ==
    /\ last.op = "ApplyControl"
    /\ last.err = NoError
    /\ last.applied[1].VideoURL = <<>>
    /\ last.applied[1].Playing = <<>>
    /\ rooms[last.room].VideoURL = "b"
    /\ rooms[last.room].IsPlaying
    /\ ParticipantCount(rooms[last.room]) = 2

\* C7: once ApplyControl has returned successfully with IssuedAt = T, a
\* later ApplyControl whose IssuedAt is earlier than T does not replace the
\* state: StateSnapshot() stays the one that call returned.
LastWriterWins ==
    (last.op = "ApplyControl" /\ last.err = NoError) =>
        \A senderID \in UserIds, control \in Controls :
            control.IssuedAt < last.applied[1].IssuedAt =>
                StateSnapshot(ApplyControl(rooms, parts, last.room, senderID,
                                           control).rooms[last.room])
                    = last.state

\* C8: DetachParticipant of an id that is not in the room's participant map
\* changes nothing, and no mailbox is ever closed more than once.
DetachIdempotent ==
    /\ \A r \in DOMAIN rooms, participantID \in UserIds :
           participantID \notin DOMAIN rooms[r].Participants =>
               LET a == DetachParticipant(rooms, parts, send, r, participantID)
               IN a.rooms = rooms /\ a.parts = parts /\ a.send = send
    /\ \A p \in DOMAIN send : send[p] <= 1

\* A participant has been detached, its mailbox closed, and a further
\* DetachParticipant has found its id gone.
DetachIdempotentWitness ==
    /\ last.op = "DetachParticipant"
    /\ ~last.found
    /\ \E p \in DOMAIN send : send[p] = 1

\* C9: while a CleanupRoom of a room instance is under way, the registry
\* entries that hold another instance, the one under the room's own id
\* included, are still there when the call has held m.mu.
StaleCleanupKeepsNewRoom ==
    \A c \in Pending("CleanupRoom") :
        \A roomID \in DOMAIN registry :
            registry[roomID] # c.room =>
                LET after == CleanupRegistry(registry, rooms, c.room)
                IN roomID \in DOMAIN after /\ after[roomID] = registry[roomID]

\* A CleanupRoom of an empty room has returned without deleting, the
\* registry holding another instance under that room's id.
StaleCleanupKeepsNewRoomWitness ==
    /\ last.op = "CleanupRoom"
    /\ ~last.deleted
    /\ ParticipantCount(rooms[last.room]) = 0
    /\ rooms[last.room].Id \in DOMAIN registry
    /\ registry[rooms[last.room].Id] # last.room

\* C10: a CleanupRoom has deleted the room from the registry if and only if
\* the room has no participant and the registry held that instance under
\* its id; a room has no participant at the moment it is deleted.
CleanupDeletesOnlyEmptyRoom ==
    last.op = "CleanupRoom" =>
        IF last.deleted
        THEN ParticipantCount(rooms[last.room]) = 0
        ELSE \/ ParticipantCount(rooms[last.room]) > 0
             \/ ~CleanupDeletes(registry, rooms, last.room)

\* C11: the Session CreateRoom returns has a non-empty room id, user id and
\* token and IsHost = TRUE, its state has the session's room id, the video
\* of the call, position 0, IsPlaying = FALSE and the session's user id as
\* owner; when the call has returned the registry holds the room under that
\* id and the creator is attached to it as a host.
CreateRoomSession ==
    last.op = "CreateRoom" =>
        LET s == last.session
        IN /\ s.RoomID # EmptyString
           /\ s.UserID # EmptyString
           /\ s.Token # EmptyString
           /\ s.IsHost
           /\ s.State.RoomID = s.RoomID
           /\ s.State.VideoURL = last.videoURL
           /\ s.State.Position = 0
           /\ ~s.State.IsPlaying
           /\ s.State.OwnerID = s.UserID
           /\ s.RoomID \in DOMAIN registry
           /\ registry[s.RoomID] = last.room
           /\ s.UserID \in Hosts(last.room)

\* C12: a step of CreateRoom that registers a room does so under an id that
\* was no key of the registry, and a CreateRoom or JoinRoom that returns a
\* session has attached a user id that was no key of the room's participant
\* map with a token that was no key of its token index and no participant's
\* token.
GeneratedIdsFresh ==
    [][/\ Len(rooms') > Len(rooms) =>
              rooms'[Len(rooms')].Id \notin DOMAIN registry
       /\ (last'.op \in {"CreateRoom", "JoinRoom"} /\ last'.err = NoError) =>
              LET s    == last'.session
                  room == rooms[last'.room]
              IN /\ s.UserID \notin DOMAIN room.Participants
                 /\ s.Token \notin DOMAIN room.TokenIndex
                 /\ \A u \in DOMAIN room.Participants :
                        parts[room.Participants[u]].Token # s.Token]_vars

\* C13: the Session JoinRoom returns has the room id of the call, a
\* non-empty user id and token, IsHost = FALSE and the snapshot of the room;
\* when JoinRoom or CreateRoom has returned a session,
\* LookupParticipant(session.RoomID, session.Token) succeeds and finds the
\* participant whose id is session.UserID and whose host flag is
\* session.IsHost.
SessionResolves ==
    (last.op \in {"CreateRoom", "JoinRoom"} /\ last.err = NoError) =>
        LET s == last.session
            l == LookupParticipant(registry, rooms, s.RoomID, s.Token)
        IN /\ last.op = "JoinRoom" =>
                  /\ s.RoomID = rooms[last.room].Id
                  /\ s.UserID # EmptyString
                  /\ s.Token # EmptyString
                  /\ ~s.IsHost
                  /\ s.State = StateSnapshot(rooms[last.room])
           /\ l.err = NoError
           /\ parts[l.participant].ID = s.UserID
           /\ parts[l.participant].IsHost = s.IsHost

\* C14: GetState of a room id that is not in the registry returns
\* ErrRoomNotFound, a JoinRoom goes on to attach only with a room id that is
\* in the registry, and a JoinRoom or GetState that returns ErrRoomNotFound
\* leaves the rooms, the participants, the mailboxes, the registry and the
\* calls under way as they were.
UnknownRoomChangesNothing ==
    [][/\ (last'.op = "GetState" /\ last'.roomID \notin DOMAIN registry) =>
              last'.err = ErrRoomNotFound
       /\ \A c \in calls' \ calls :
              c.op = "JoinRoom" => c.roomID \in DOMAIN registry
       /\ (last'.op \in {"JoinRoom", "GetState"} /\ last'.err = ErrRoomNotFound) =>
              UNCHANGED <<rooms, parts, send, registry, calls, boxVars, netVars>>]_vars

\* A room is registered with its host attached, and a JoinRoom with another
\* room id has returned ErrRoomNotFound.
UnknownRoomChangesNothingWitness ==
    /\ last.op = "JoinRoom"
    /\ last.err = ErrRoomNotFound
    /\ \E roomID \in DOMAIN registry : Hosts(registry[roomID]) # {}

\* C16: GetState changes no room, participant, mailbox, registry entry or
\* call; the RoomState it has returned has the room's id, video, playing
\* flag, position, owner id and timestamp, and a second GetState or
\* StateSnapshot() returns the same value.
SnapshotReadOnly ==
    /\ [][last'.op = "GetState" =>
              UNCHANGED <<rooms, parts, send, registry, calls, boxVars, netVars>>]_vars
    /\ []((last.op = "GetState" /\ last.err = NoError) =>
              LET room == rooms[registry[last.roomID]]
              IN /\ last.state.RoomID = room.Id
                 /\ last.state.VideoURL = room.VideoURL
                 /\ last.state.IsPlaying = room.IsPlaying
                 /\ last.state.Position = room.Position
                 /\ last.state.OwnerID = room.OwnerID
                 /\ last.state.UpdatedAt = room.UpdatedAt
                 /\ GetState(registry, rooms, last.roomID).state = last.state
                 /\ StateSnapshot(room) = last.state)

\* GetState has returned the state of a room that the host's control has
\* set playing at position 1.
SnapshotReadOnlyWitness ==
    /\ last.op = "GetState"
    /\ last.err = NoError
    /\ last.state.IsPlaying
    /\ last.state.Position = 1
    /\ last.state.UpdatedAt = 1
    /\ last.state.OwnerID # EmptyString

\* C15: LookupParticipant returns ErrRoomNotFound for a room id that is not
\* registered, otherwise ErrInvalidToken for a token that is not in the
\* room's token index, and it never returns ErrParticipantNotFound: no token
\* index maps a token to an id that is missing from the participant map.
LookupErrors ==
    \A roomID \in RoomIds, token \in TokenIds :
        LET l == LookupParticipant(registry, rooms, roomID, token)
        IN /\ roomID \notin DOMAIN registry => l.err = ErrRoomNotFound
           /\ (/\ roomID \in DOMAIN registry
               /\ token \notin DOMAIN rooms[registry[roomID]].TokenIndex) =>
                  l.err = ErrInvalidToken
           /\ l.err # ErrParticipantNotFound

\* C17: no mailbox ever holds more than MailboxCap messages, and every
\* enqueue that is due completes without blocking: for each participant still
\* on the list of a Broadcast under way, and for a Send to each attached
\* participant, the non-blocking send returns, having appended exactly one
\* copy of the envelope to that mailbox when it held fewer than MailboxCap
\* messages and having left every mailbox as it was when it was full.
MailboxNeverBlocks ==
    /\ \A p \in DOMAIN mail : Len(mail[p]) <= MailboxCap
    /\ \A c \in Pending("Broadcast") :
         \A p \in c.todo :
           LET e == sendToParticipant(mail, send, p, c.data)
           IN /\ ~e.panic
              /\ e.mail = IF Len(mail[p]) < MailboxCap
                          THEN [mail EXCEPT ![p] = Append(@, c.data)]
                          ELSE mail
    /\ \A p \in DOMAIN parts :
         LET envelope == RoomStateEnvelope(ZeroRoomState)
             e        == Send(mail, send, p, envelope)
         IN /\ ~e.panic
            /\ e.mail = IF Len(mail[p]) < MailboxCap
                        THEN [mail EXCEPT ![p] = Append(@, envelope)]
                        ELSE mail

RECURSIVE IsSubsequence(_, _)
\* Whether the elements of a occur in b in the order of a, each at a place of
\* its own.
IsSubsequence(a, b) ==
    IF a = <<>> THEN TRUE
    ELSE IF b = <<>> THEN FALSE
    ELSE IF Head(a) = Head(b) THEN IsSubsequence(Tail(a), Tail(b))
    ELSE IsSubsequence(a, Tail(b))

\* The messages that the send loops of participant p have written, in the
\* order of the writes.
Written(p) == [i \in 1 .. Len(wrote[p]) |-> wrote[p][i].data]

\* C18: for every participant, the messages written to the transport so far
\* are, in the order of the writes, a subsequence of the messages that its
\* mailbox accepted, in the order it accepted them: none is written twice,
\* none before one that was enqueued earlier, none that was not enqueued.
WritesInEnqueueOrder ==
    \A p \in DOMAIN wrote : IsSubsequence(Written(p), enq[p])

\* The handlers whose send loop is running for participant p.
SendLoops(p) ==
    {t \in DOMAIN conns : conns[t].part = p /\ conns[t].loop = "running"}

\* C19: at most one send loop is running for a participant, and all the
\* writes to one connection are those of one send loop, however many
\* connections have presented the participant's token.
SingleSendLoop ==
    \A p \in DOMAIN wrote :
        /\ Cardinality(SendLoops(p)) <= 1
        /\ \A i \in DOMAIN wrote[p] :
             \A j \in DOMAIN wrote[p] :
               wrote[p][i].to = wrote[p][j].to => wrote[p][i].by = wrote[p][j].by

\* C20: a request without a token, or with a token that LookupParticipant
\* does not resolve for the room, gets 401; a request that got 401 has left
\* the rooms, the participants, the mailboxes and their histories, the
\* bindings, the registry, the calls, the connections and their send loops
\* as they were; and every connection that is upgraded, the only ones that
\* are bound and get a send loop, was requested with a token that
\* LookupParticipant resolved, to the room and the participant it serves.
RejectedBeforeUpgrade ==
    /\ [](\A roomID \in RoomIds :
            \A token \in TokenIds \cup {EmptyString} :
              (\/ token = EmptyString
               \/ LookupParticipant(registry, rooms, roomID, token).err # NoError)
                  => Authorize(registry, rooms, roomID, token).status
                         = StatusUnauthorized)
    /\ [][(last'.op = "Connect" /\ last'.status = StatusUnauthorized) =>
              UNCHANGED <<rooms, parts, send, registry, calls, boxVars, netVars>>]_vars
    /\ [][\A t \in DOMAIN conns' \ DOMAIN conns :
              /\ conns'[t].pc = "upgraded"
              /\ conns'[t].loop = "none"
              /\ handle[conns'[t].part] # t
              /\ conns'[t].token # EmptyString
              /\ LET l == LookupParticipant(registry, rooms, conns'[t].roomID,
                                            conns'[t].token)
                 IN /\ l.err = NoError
                    /\ l.room = conns'[t].room
                    /\ l.participant = conns'[t].part]_vars

\* While a connection of the host is active, a request with a token that the
\* room does not know has been rejected.
RejectedBeforeUpgradeWitness ==
    /\ last.op = "Connect"
    /\ last.status = StatusUnauthorized
    /\ last.body = ErrInvalidToken
    /\ \E t \in DOMAIN conns : conns[t].pc = "active"

\* C21: the step that takes a connection from Bound, its send loop started,
\* to Active has enqueued the ROOM_STATE envelope with the room's snapshot
\* onto the participant's mailbox, from where the send loop writes it:
\* the mailbox has accepted one more message, that envelope, whatever was
\* enqueued before the connection was opened.
InitialStateEnqueued ==
    [][\A t \in DOMAIN conns :
          (t \in DOMAIN conns' /\ conns[t].pc = "started" /\ conns'[t].pc = "active")
              => enq'[conns[t].part] =
                     Append(enq[conns[t].part],
                            RoomStateEnvelope(StateSnapshot(rooms[conns[t].room])))]_vars

\* The participants attached to room r.
Attached(r) == {rooms[r].Participants[u] : u \in DOMAIN rooms[r].Participants}

\* C22: a CONTROL of the host that ApplyControl accepts leads to a broadcast
\* of the ROOM_STATE envelope with the snapshot ApplyControl returned
\* (the control's position, the playing flag and the video it names, its
\* IssuedAt as the timestamp); the broadcast lists every participant
\* attached to the room, the sender's among them; and to each participant on
\* the list the envelope is enqueued: the send completes, and the mailbox
\* accepts the envelope unless it is full.
ControlBroadcastToAll ==
    /\ [][\A c \in calls' \ calls :
            /\ c.op = "Control" =>
                 LET control == Stamped(last'.frame.Data[1])
                 IN /\ last'.op = "ReadMessage"
                    /\ c.data.Kind = "ROOM_STATE"
                    /\ c.data.Data = StateSnapshot(rooms'[c.room])
                    /\ c.data.Data.Position = control.Position
                    /\ c.data.Data.UpdatedAt = control.IssuedAt
                    /\ control.Playing # <<>> =>
                           c.data.Data.IsPlaying = control.Playing[1]
                    /\ control.VideoURL # <<>> =>
                           c.data.Data.VideoURL = control.VideoURL[1]
            /\ (c.op = "Broadcast" /\ c.conn \in {d.conn : d \in Pending("Control")}) =>
                 /\ c.todo = Attached(c.room)
                 /\ conns[c.conn].userID \in DOMAIN rooms[c.room].Participants =>
                        rooms[c.room].Participants[conns[c.conn].userID] \in c.todo]_vars
    /\ [](\A c \in Pending("Broadcast") :
            \A p \in c.todo :
              LET e == sendToParticipant(mail, send, p, c.data)
              IN /\ ~e.panic
                 /\ Len(mail[p]) < MailboxCap =>
                        e.mail = [mail EXCEPT ![p] = Append(@, c.data)])

\* The step answers handler t's frame with one envelope that meets Ok, for
\* its participant alone: that mailbox has accepted the envelope, no other
\* mailbox and no room has changed, no broadcast is due, and the handler is
\* still reading an open connection.
AnsweredOnly(t, Ok(_)) ==
    LET p == conns[t].part
    IN /\ Len(enq'[p]) = Len(enq[p]) + 1
       /\ SubSeq(enq'[p], 1, Len(enq[p])) = enq[p]
       /\ Ok(enq'[p][Len(enq'[p])])
       /\ mail'[p] = Append(mail[p], enq'[p][Len(enq'[p])])
       /\ \A q \in DOMAIN mail \ {p} : mail'[q] = mail[q] /\ enq'[q] = enq[q]
       /\ rooms' = rooms
       /\ calls' = calls
       /\ fault' = FALSE
       /\ conns'[t].pc = "reading"
       /\ conns'[conns'[t].rd].open

\* C23: a CONTROL frame read from a connection of a participant that is not
\* the host, whatever its payload, is answered with an ERROR envelope of
\* code "unauthorized" enqueued for the sender alone; no other mailbox and
\* no room state changes, and the connection stays open with its read loop
\* going on.
GuestControlUnauthorized ==
    [][(/\ last'.op = "ReadMessage"
        /\ last'.frame.json
        /\ last'.frame.Kind = "CONTROL"
        /\ ~conns[last'.conn].isHost)
           => AnsweredOnly(last'.conn,
                  LAMBDA e : e.Kind = "ERROR" /\ e.Data.Code = "unauthorized")]_vars

\* C24: a frame that does not decode as an envelope, or a CONTROL of the
\* host whose payload does not decode, is answered with an ERROR envelope
\* enqueued for the sender alone; nothing is broadcast, no room state
\* changes, and the connection stays open.
MalformedFrameAnswered ==
    [][(/\ last'.op = "ReadMessage"
        /\ \/ ~last'.frame.json
           \/ /\ last'.frame.Kind = "CONTROL"
              /\ conns[last'.conn].isHost
              /\ last'.frame.Data = <<>>)
           => AnsweredOnly(last'.conn, LAMBDA e : e.Kind = "ERROR")]_vars

\* C25: a SYNC_REQUEST read from a connection of a participant attached to
\* the room, host or guest, is answered with the ROOM_STATE envelope of the
\* room's current snapshot, enqueued for the requester alone; no other
\* mailbox and no room state changes.  When the request follows a broadcast
\* with no control applied since, the snapshot is the state that broadcast
\* carried.
SyncAnsweredToRequester ==
    [][(/\ last'.op = "ReadMessage"
        /\ last'.frame = SyncFrame
        /\ conns[last'.conn].userID
               \in DOMAIN rooms[conns[last'.conn].room].Participants
        /\ rooms[conns[last'.conn].room].Participants[conns[last'.conn].userID]
               = conns[last'.conn].part)
           => LET r == conns[last'.conn].room
              IN /\ AnsweredOnly(last'.conn,
                       LAMBDA e : e = RoomStateEnvelope(StateSnapshot(rooms[r])))
                 /\ (/\ last.op = "Broadcast"
                     /\ last.room = r
                     /\ \A c \in Pending("Control") : c.room # r)
                        => StateSnapshot(rooms[r]) = last.data.Data]_vars

\* C26: a frame that decodes as an envelope of a kind other than CONTROL
\* and SYNC_REQUEST is answered with an ERROR envelope of code
\* "unknown_kind" enqueued for the sender alone; no room state and no other
\* mailbox changes, and the connection stays open.
UnknownKindAnswered ==
    [][(/\ last'.op = "ReadMessage"
        /\ last'.frame.json
        /\ last'.frame.Kind \notin {"CONTROL", "SYNC_REQUEST"})
           => AnsweredOnly(last'.conn,
                  LAMBDA e : e.Kind = "ERROR" /\ e.Data.Code = "unknown_kind")]_vars

\* C27: whatever the interleaving of the broadcasts, the sends, the detaches
\* and the loops of the handlers, no send is attempted on a closed mailbox
\* (the send that panics) and no mailbox is closed twice.
NoFatalFault ==
    /\ fault = FALSE
    /\ \A p \in DOMAIN send : send[p] <= 1

\* C28: an AttachParticipant for a user id that is attached, with a token
\* other than the participant's, rotates the token: afterwards FindByToken
\* of the new token returns that participant and FindByToken of the old
\* token fails with ErrInvalidToken, while the participant count, the host
\* flag and the mailbox are as before.
ReattachRotatesToken ==
    [][\A r \in DOMAIN rooms :
         \A u \in DOMAIN rooms[r].Participants :
           LET p == rooms[r].Participants[u]
           IN (/\ u \in DOMAIN rooms'[r].Participants
               /\ rooms'[r].Participants[u] = p
               /\ parts'[p].Token # parts[p].Token)
                  => /\ FindByToken(rooms'[r], parts'[p].Token)
                            = [participant |-> p, err |-> NoError]
                     /\ FindByToken(rooms'[r], parts[p].Token).err = ErrInvalidToken
                     /\ ParticipantCount(rooms'[r]) = ParticipantCount(rooms[r])
                     /\ parts'[p].IsHost = parts[p].IsHost
                     /\ send'[p] = send[p]
                     /\ mail'[p] = mail[p]]_vars

\* C29: a DetachParticipant of an attached id removes the participant's
\* entry and every entry of the token index that maps to the id, closes the
\* mailbox and lowers the count by one; afterwards every token that resolved
\* to the id, and every other token that does not resolve, fails with
\* ErrInvalidToken, none with ErrParticipantNotFound; the video, the playing
\* flag, the position and the timestamp are as before.
DetachRemovesTokens ==
    [][\A r \in DOMAIN rooms :
         \A u \in DOMAIN rooms[r].Participants :
           LET p == rooms[r].Participants[u]
           IN u \notin DOMAIN rooms'[r].Participants
                  => /\ \A t \in DOMAIN rooms'[r].TokenIndex :
                            rooms'[r].TokenIndex[t] # u
                     /\ send'[p] = send[p] + 1
                     /\ ParticipantCount(rooms'[r]) = ParticipantCount(rooms[r]) - 1
                     /\ \A t \in DOMAIN rooms[r].TokenIndex \cup TokenIds :
                            FindByToken(rooms'[r], t).err
                                \in {NoError, ErrInvalidToken}
                     /\ StateSnapshot(rooms'[r]) = StateSnapshot(rooms[r])]_vars

\* C30: when the CleanupRoom of a closing connection's handler returns and
\* the room is empty, the room's id is not in the registry, so that
\* JoinRoom, GetState and LookupParticipant of the id fail with
\* ErrRoomNotFound; and a room with an attached participant is the
\* registry's entry for its id.
EmptiedRoomUnregistered ==
    /\ [][\A t \in DOMAIN conns :
             (/\ conns[t].pc \in {"detached", "cleanup"}
              /\ conns'[t].pc = "done"
              /\ ParticipantCount(rooms'[conns[t].room]) = 0)
                 => LET roomID == rooms[conns[t].room].Id
                    IN /\ roomID \notin DOMAIN registry'
                       /\ GetState(registry', rooms', roomID).err = ErrRoomNotFound
                       /\ \A token \in TokenIds :
                              LookupParticipant(registry', rooms', roomID, token).err
                                  = ErrRoomNotFound]_vars
    /\ [](\A r \in DOMAIN rooms :
             ParticipantCount(rooms[r]) > 0
                 => /\ rooms[r].Id \in DOMAIN registry
                    /\ registry[rooms[r].Id] = r)

\* C31: ApplyControl by an attached host applies the control whatever its
\* timestamp: the position and the timestamp of the room become those of
\* the control, also when IssuedAt is earlier than the room's UpdatedAt, a
\* field the control supplies is overwritten and one it omits is kept; and
\* the room a successful call leaves has the control's timestamp, so that
\* UpdatedAt goes down when the control is the older one.
AppliedUnconditionally ==
    /\ [](\A r \in DOMAIN rooms :
            \A senderID \in Hosts(r), control \in Controls :
              LET a == ApplyControl(rooms, parts, r, senderID, control)
              IN /\ a.err = NoError
                 /\ a.rooms[r].Position = control.Position
                 /\ a.rooms[r].UpdatedAt = control.IssuedAt
                 /\ a.rooms[r].VideoURL = IF control.VideoURL # <<>>
                                          THEN control.VideoURL[1]
                                          ELSE rooms[r].VideoURL
                 /\ a.rooms[r].IsPlaying = IF control.Playing # <<>>
                                           THEN control.Playing[1]
                                           ELSE rooms[r].IsPlaying)
    /\ [][(last'.op = "ApplyControl" /\ last'.err = NoError)
              => /\ rooms'[last'.room].UpdatedAt = last'.applied[1].IssuedAt
                 /\ rooms'[last'.room].Position = last'.applied[1].Position
                 /\ last'.state = StateSnapshot(rooms'[last'.room])]_vars

\* The host is attached to a room whose timestamp is 1, left by a control
\* that was applied: a control issued at 0 is the older one.
AppliedUnconditionallyWitness ==
    /\ last.op = "ApplyControl"
    /\ last.err = NoError
    /\ rooms[last.room].UpdatedAt = 1
    /\ last.sender \in Hosts(last.room)

\* C32: a connection that is Active, its handler in the read loop, and whose
\* read has failed or whose idle period has elapsed with no frame from the
\* client, is detached in the end: the handler has left the read loop and
\* called DetachParticipant and CleanupRoom, the participant is no longer in
\* the room, its handle is released and its send loop has exited.
ClosedConnectionDetached ==
    \A t \in 1..MaxConns :
        (/\ t \in DOMAIN conns
         /\ \/ conns[t].pc = "closed"
            \/ last = [op |-> "IdleTimeout", conn |-> t])
            ~> (/\ t \in DOMAIN conns
                /\ conns[t].pc = "done"
                /\ conns[t].loop = "exited"
                /\ handle[conns[t].part] = 0
                /\ conns[t].part \notin Attached(conns[t].room))

\* C38: a send loop that is inside sendBatch, about to set the deadline on
\* p.conn and to write to it, finds a handle there: the participant's
\* binding has not been cleared since the loop tested it.
LoopHandleBound ==
    \A t \in DOMAIN conns :
        conns[t].loop = "writing" => handle[conns[t].part] # 0

\* C33: a send loop ends only on its mailbox closed and drained, and its
\* end releases the handle: the binding is cleared and the connection that
\* was bound is closed; it ends in no other way, so no step of a loop inside
\* sendBatch is a panic; and a loop whose mailbox is closed ends.
SendLoopEndsOnClose ==
    /\ [][\A t \in DOMAIN conns :
             (conns[t].loop # "exited" /\ conns'[t].loop = "exited")
                 => LET p == conns[t].part
                    IN /\ send[p] > 0
                       /\ mail[p] = <<>>
                       /\ handle'[p] = 0
                       /\ handle[p] # 0 => ~conns'[handle[p]].open]_vars
    /\ [][\A t \in DOMAIN conns :
             (conns[t].loop = "writing" /\ handle[conns[t].part] = 0)
                 => ~fault']_vars
    /\ \A t \in 1..MaxConns :
          (/\ t \in DOMAIN conns
           /\ conns[t].loop \in {"running", "writing"}
           /\ send[conns[t].part] > 0)
              ~> (t \in DOMAIN conns /\ conns[t].loop = "exited")

\* C34: the step that binds a handle to a participant whose handle is that
\* of an earlier connection still open has closed the old connection and
\* stopped its send loop; and no participant has two open connections with
\* a send loop each on its mailbox.
RebindDetachesOld ==
    /\ [][\A p \in DOMAIN handle :
             (/\ handle[p] # 0
              /\ handle'[p] \notin {0, handle[p]}
              /\ conns[handle[p]].open)
                 => /\ ~conns'[handle[p]].open
                    /\ conns'[handle[p]].loop # "running"]_vars
    /\ [](\A p \in DOMAIN handle :
             Cardinality({t \in DOMAIN conns :
                            /\ conns[t].part = p
                            /\ conns[t].open
                            /\ conns[t].loop = "running"}) <= 1)

\* C35: no goroutine holds two locks at a time, neither Manager.mu with a
\* room's mu nor the mu of two rooms; and while goroutines are inside
\* operations one of them can take its next step: there is no deadlock.
NoNestedLocks ==
    /\ \A c \in Threads : Len(c.held) <= 1
    /\ Threads # {} => ENABLED (ThreadAnnounce \/ ThreadAcquire \/ ThreadRelease)

\* One goroutine holds Manager.mu as the writer while another has announced
\* itself as a writer of it and waits.
NoNestedLocksWitness ==
    \E c \in Threads, d \in Threads :
        /\ c.held = <<[on |-> ManagerMu, mode |-> "w"]>>
        /\ d.wait
        /\ Head(d.rest).on = ManagerMu

\* C36: ApplyControl calls on one room are atomic and serialized by the room
\* lock.  An ApplyControl that returns leaves the room, and returns the state
\* and the error, that the whole call gives on the room as it was when the
\* call took the lock; at most one ApplyControl is inside the lock and no
\* StateSnapshot reads next to it; and a StateSnapshot that returns has read
\* the state of the room as it is, which no ApplyControl is half-way through
\* writing.
ControlsSerialized ==
    /\ [][\A c \in Applying :
            (c.pc \in {"return", "unauthorized"} /\ c \notin calls')
              => LET a == ApplyControl([rooms EXCEPT ![c.room] = c.before], parts,
                                       c.room, c.sender, c.control)
                 IN /\ rooms'[c.room] = a.rooms[c.room]
                    /\ last'.state = a.state
                    /\ last'.err = a.err]_vars
    /\ [](\A r \in DOMAIN rooms :
            /\ Cardinality({c \in Applying : c.room = r /\ c.pc # "Lock"}) <= 1
            /\ ~(WriteHeld(r) /\ ReadHeld(r)))
    /\ [](\A c \in Reading :
            c.pc = "return" => c.got = StateSnapshot(rooms[c.room]))

\* A StateSnapshot is about to return the state that an ApplyControl of the
\* host left, with the position and the timestamp of the control, while
\* another ApplyControl waits for the lock.
ControlsSerializedWitness ==
    /\ last.op = "ApplyControl" /\ last.err = NoError
    /\ \E c \in Reading :
          /\ c.pc = "return"
          /\ c.got = last.state
          /\ c.got.Position = 1 /\ c.got.UpdatedAt = 1
    /\ \E c \in Applying : c.pc = "Lock"

\* C37: the ROOM_STATE broadcasts of the controls applied on a room reach a
\* mailbox in the order in which the controls were applied.  Once every
\* broadcast has been delivered and the mailbox has dropped nothing, the last
\* ROOM_STATE the mailbox accepted is the state of the room.
BroadcastsInLockOrder ==
    \A r \in DOMAIN rooms : \A p \in Attached(r) :
        LET states == SelectSeq(enq[p], LAMBDA e : e.Kind = "ROOM_STATE")
        IN (/\ Pending("Control") = {} /\ Pending("Broadcast") = {}
            /\ Len(mail[p]) < MailboxCap
            /\ states # <<>>)
             => states[Len(states)].Data = StateSnapshot(rooms[r])

\* C39: a JoinRoom that returns a session has attached its participant to the
\* room the registry holds under the session's room id: the room has not been
\* removed by the CleanupRoom of a connection that closed meanwhile, and
\* LookupParticipant of the session's room id does not fail with
\* ErrRoomNotFound.
JoinedRoomRegistered ==
    [][(/\ \E c \in Pending("JoinRoom") : c \notin calls'
        /\ last'.op = "JoinRoom"
        /\ last'.err = NoError)
          => LET s == last'.session
             IN /\ s.RoomID \in DOMAIN registry'
                /\ registry'[s.RoomID] = last'.room
                /\ LookupParticipant(registry', rooms', s.RoomID, s.Token).err
                       # ErrRoomNotFound]_vars

\* C40: the host flag of a participant never changes, whatever is attached,
\* re-attached, detached or applied; a JoinRoom creates no host; and a room
\* whose CreateRoom has returned and that has no host attached, its host
\* having been detached, never has a host again: every ApplyControl on it,
\* whoever the sender and whatever the control, returns
\* ErrUnauthorizedControl, and its playback state never changes.
HostFlagFixed ==
    /\ [][\A p \in DOMAIN parts \cap DOMAIN parts' :
            parts'[p].IsHost = parts[p].IsHost]_vars
    /\ [][(\E c \in Pending("JoinRoom") : c \notin calls')
            => \A p \in DOMAIN parts' \ DOMAIN parts : ~parts'[p].IsHost]_vars
    /\ [][\A r \in DOMAIN rooms :
            (Hosts(r) = {} /\ \A c \in Pending("CreateRoom") : c.room # r)
              => /\ {u \in DOMAIN rooms'[r].Participants :
                        parts'[rooms'[r].Participants[u]].IsHost} = {}
                 /\ StateSnapshot(rooms'[r]) = StateSnapshot(rooms[r])]_vars
    /\ [](\A r \in DOMAIN rooms :
            (Hosts(r) = {} /\ \A c \in Pending("CreateRoom") : c.room # r)
              => \A senderID \in UserIds, control \in Controls :
                    LET a == ApplyControl(rooms, parts, r, senderID, control)
                    IN a.err = ErrUnauthorizedControl /\ a.rooms = rooms)

\* The host has been detached and a guest that JoinRoom gave the host's user
\* id is attached; an ApplyControl of that id has returned
\* ErrUnauthorizedControl.
HostFlagFixedWitness ==
    /\ last.op = "ApplyControl"
    /\ last.err = ErrUnauthorizedControl
    /\ last.sender = rooms[last.room].OwnerID
    /\ last.sender \in DOMAIN rooms[last.room].Participants
    /\ Hosts(last.room) = {}
    /\ \E p \in DOMAIN send : send[p] > 0

====
